---------------------------- MODULE Spec2Model ----------------------------
(***************************************************************************)
(* Model of the log reconstruction engine of app.py: extract_user_info,    *)
(* extract_conversation_from_data, determine_sender,                       *)
(* is_real_conversation_message, extract_timestamps_from_data and the      *)
(* assembler extract_chat_messages.                                        *)
(*                                                                         *)
(* Python values are tagged records [t |-> tag, v |-> payload]:            *)
(*   "str"  : v is the sequence of the string's characters                 *)
(*   "num"  : v is the sequence of decimal digits of a non-negative int    *)
(*   "bool" : v is the characters of True or of False                      *)
(*   "null" : v is <<>>                                                    *)
(*   "list" : v is the sequence of the elements                            *)
(*   "obj"  : v is the sequence of [k |-> key, v |-> value] in items()     *)
(*            order, keys being character sequences                        *)
(* Instants are integers: milliseconds elapsed since epoch second 10^9.    *)
(***************************************************************************)
EXTENDS Integers, Sequences, FiniteSets, TLC

----------------------------------------------------------------------------
(* Values *)

Str(s) == [t |-> "str", v |-> s]
Num(d) == [t |-> "num", v |-> d]
Bool(b) == [t |-> "bool", v |-> IF b THEN <<"T", "r", "u", "e">> ELSE <<"F", "a", "l", "s", "e">>]
Null == [t |-> "null", v |-> <<>>]
List(xs) == [t |-> "list", v |-> xs]
Obj(kvs) == [t |-> "obj", v |-> kvs]
KV(k, x) == [k |-> k, v |-> x]

IsStr(x) == x.t = "str"
IsNum(x) == x.t = "num"
IsList(x) == x.t = "list"
IsObj(x) == x.t = "obj"

\* isinstance(x, str) and x == s
StrEq(x, s) == x.t = "str" /\ x.v = s

----------------------------------------------------------------------------
(* Python str methods, on sequences of characters *)

DigitChars == {"0", "1", "2", "3", "4", "5", "6", "7", "8", "9"}

\* a character that str.isdigit() and str.isalnum() accept although it is no
\* decimal digit: int() and the \d of strptime reject it
SuperscriptChars == {"²"}

UpperChars == {"A", "B", "C", "D", "E", "F", "G", "H", "I", "J", "K", "L", "M",
               "N", "O", "P", "Q", "R", "S", "T", "U", "V", "W", "X", "Y", "Z"}

LowerChars == {"a", "b", "c", "d", "e", "f", "g", "h", "i", "j", "k", "l", "m",
               "n", "o", "p", "q", "r", "s", "t", "u", "v", "w", "x", "y", "z",
               "á", "é", "í", "ó", "ú", "ñ"}

SpaceChars == {" "}

LowerOf == [c \in UpperChars |->
              CASE c = "A" -> "a" [] c = "B" -> "b" [] c = "C" -> "c" [] c = "D" -> "d"
                [] c = "E" -> "e" [] c = "F" -> "f" [] c = "G" -> "g" [] c = "H" -> "h"
                [] c = "I" -> "i" [] c = "J" -> "j" [] c = "K" -> "k" [] c = "L" -> "l"
                [] c = "M" -> "m" [] c = "N" -> "n" [] c = "O" -> "o" [] c = "P" -> "p"
                [] c = "Q" -> "q" [] c = "R" -> "r" [] c = "S" -> "s" [] c = "T" -> "t"
                [] c = "U" -> "u" [] c = "V" -> "v" [] c = "W" -> "w" [] c = "X" -> "x"
                [] c = "Y" -> "y" [] c = "Z" -> "z"]

\* str.lower()
Lower(s) == [n \in 1..Len(s) |-> IF s[n] \in UpperChars THEN LowerOf[s[n]] ELSE s[n]]

\* sub in s
Contains(sub, s) ==
    \E n \in 0..(Len(s) - Len(sub)) : \A k \in 1..Len(sub) : s[n + k] = sub[k]

\* s.startswith(p), s.endswith(p)
StartsWith(s, p) == Len(p) <= Len(s) /\ SubSeq(s, 1, Len(p)) = p
EndsWith(s, p) == Len(p) <= Len(s) /\ SubSeq(s, Len(s) - Len(p) + 1, Len(s)) = p

MinOf(S) == CHOOSE n \in S : \A m \in S : n <= m
MaxOf(S) == CHOOSE n \in S : \A m \in S : m <= n

\* s.strip()
Strip(s) ==
    LET keep == {n \in 1..Len(s) : s[n] \notin SpaceChars}
    IN  IF keep = {} THEN <<>> ELSE SubSeq(s, MinOf(keep), MaxOf(keep))

\* s.isdigit(), s.isalnum(): false on the empty string
IsDigit(s) == Len(s) > 0 /\ \A n \in 1..Len(s) : s[n] \in DigitChars \cup SuperscriptChars
IsAlnum(s) ==
    /\ Len(s) > 0
    /\ \A n \in 1..Len(s) :
          s[n] \in DigitChars \cup SuperscriptChars \cup UpperChars \cup LowerChars

\* s.isdecimal() on the characters of the model
IsDecimal(s) == Len(s) > 0 /\ \A n \in 1..Len(s) : s[n] \in DigitChars

\* s.count(c) for a single character c
Count(s, c) == Cardinality({n \in 1..Len(s) : s[n] = c})

\* the value of a sequence of decimal digits
RECURSIVE DigitsVal(_)
DigitsVal(d) ==
    IF d = <<>> THEN 0
    ELSE 10 * DigitsVal(SubSeq(d, 1, Len(d) - 1))
         + (CHOOSE n \in 0..9 : ToString(n) = d[Len(d)])

\* int(s) accepts surrounding whitespace, one sign, and digits separated by
\* single underscores; anything else raises ValueError
Unsigned(t) == IF Len(t) > 0 /\ t[1] \in {"+", "-"} THEN Tail(t) ELSE t

IntBody(s) == Unsigned(Strip(s))

WellFormed(b) ==
    /\ Len(b) > 0
    /\ \A n \in 1..Len(b) : b[n] \in DigitChars \cup {"_"}
    /\ b[1] # "_" /\ b[Len(b)] # "_"
    /\ \A n \in 1..(Len(b) - 1) : ~(b[n] = "_" /\ b[n + 1] = "_")

IntParses(s) == WellFormed(IntBody(s))

\* the digits from the first one that is not zero
Significant(digits) ==
    LET nonzero == {n \in 1..Len(digits) : digits[n] # "0"}
    IN  IF nonzero = {} THEN <<>> ELSE SubSeq(digits, MinOf(nonzero), Len(digits))

\* The value is only compared with len(data) and used as an index into data:
\* beyond nine digits it is cut to 10^9, which is out of range like the value.
Magnitude(significant) ==
    IF Len(significant) > 9 THEN 1000000000 ELSE DigitsVal(significant)

Signed(t, m) == IF t[1] = "-" THEN 0 - m ELSE m

IntValue(s) ==
    Signed(Strip(s), Magnitude(Significant(SelectSeq(IntBody(s), LAMBDA c : c # "_"))))

\* data[k] on a list of length n raises IndexError unless -n <= k < n
IndexInRange(k, n) == 0 - n <= k /\ k < n
ListAt(xs, k) == IF k >= 0 THEN xs[k + 1] ELSE xs[Len(xs) + k + 1]

----------------------------------------------------------------------------
(* NoiseFilter *)

technical_keywords ==
    << <<"l", "a", "n", "g", "c", "h", "a", "i", "n", "_", "c", "o", "r", "e">>, <<"O", "P", "E", "N", "A", "I", "_", "A", "P", "I", "_", "K", "E", "Y">>, <<"f", "i", "n", "i", "s", "h", "_", "r", "e", "a", "s", "o", "n">>, <<"s", "t", "o", "p">>,
       <<"g", "e", "n", "e", "r", "a", "t", "i", "o", "n", "I", "n", "f", "o">>, <<"H", "u", "m", "a", "n", "M", "e", "s", "s", "a", "g", "e">>, <<"A", "I", "M", "e", "s", "s", "a", "g", "e">>, <<"S", "y", "s", "t", "e", "m", "M", "e", "s", "s", "a", "g", "e">>,
       <<"B", "a", "s", "e", "M", "e", "s", "s", "a", "g", "e">>, <<"C", "h", "a", "t", "M", "e", "s", "s", "a", "g", "e">>, <<"f", "u", "n", "c", "t", "i", "o", "n", "_", "c", "a", "l", "l">>, <<"t", "o", "o", "l", "_", "c", "a", "l", "l", "s">>,
       <<"r", "e", "s", "p", "o", "n", "s", "e", "_", "m", "e", "t", "a", "d", "a", "t", "a">>, <<"u", "s", "a", "g", "e", "_", "m", "e", "t", "a", "d", "a", "t", "a">>, <<"p", "r", "o", "m", "p", "t", "_", "t", "o", "k", "e", "n", "s">>,
       <<"c", "o", "m", "p", "l", "e", "t", "i", "o", "n", "_", "t", "o", "k", "e", "n", "s">>, <<"t", "o", "t", "a", "l", "_", "t", "o", "k", "e", "n", "s">> >>

prompt_indicators ==
    << <<"Y", "o", "u", " ", "a", "r", "e">>, <<"T", "u", " ", "e", "r", "e", "s">>, <<"E", "r", "e", "s", " ", "u", "n">>, <<"Y", "o", "u", "r", " ", "r", "o", "l", "e", " ", "i", "s">>, <<"T", "u", " ", "r", "o", "l", " ", "e", "s">>,
       <<"I", "n", "s", "t", "r", "u", "c", "t", "i", "o", "n", "s", ":">>, <<"I", "n", "s", "t", "r", "u", "c", "c", "i", "o", "n", "e", "s", ":">>, <<"S", "y", "s", "t", "e", "m", ":">>, <<"S", "i", "s", "t", "e", "m", "a", ":">>,
       <<"C", "o", "n", "t", "e", "x", "t", ":">>, <<"C", "o", "n", "t", "e", "x", "t", "o", ":">>, <<"G", "u", "i", "d", "e", "l", "i", "n", "e", "s", ":">>, <<"D", "i", "r", "e", "c", "t", "r", "i", "c", "e", "s", ":">>,
       <<"R", "u", "l", "e", "s", ":">>, <<"R", "e", "g", "l", "a", "s", ":">>, <<"P", "l", "e", "a", "s", "e", " ", "f", "o", "l", "l", "o", "w">>, <<"P", "o", "r", " ", "f", "a", "v", "o", "r", " ", "s", "i", "g", "u", "e">>,
       <<"a", "s", "s", "i", "s", "t", "a", "n", "t">>, <<"a", "s", "i", "s", "t", "e", "n", "t", "e">>, <<"c", "h", "a", "t", "b", "o", "t">>, <<"A", "I", " ", "m", "o", "d", "e", "l">>, <<"m", "o", "d", "e", "l", "o", " ", "d", "e", " ", "I", "A">> >>

\* any(p in s for p in patterns)
AnyIn(patterns, s) == \E n \in 1..Len(patterns) : Contains(patterns[n], s)

\* variant: the keyword test left out
NoKeywordCheck(s) == FALSE

ContainsTechnicalKeyword(s) == AnyIn(technical_keywords, s)

\* variant: strings that look like identifiers pass
FilterKeepsIdentifiers(text) ==
    IF ~IsStr(text) \/ Len(Strip(text.v)) < 3 THEN FALSE
    ELSE IF ContainsTechnicalKeyword(text.v) THEN FALSE
    ELSE IF StartsWith(text.v, <<"{">>) /\ EndsWith(text.v, <<"}">>) THEN FALSE
    ELSE IF /\ StartsWith(text.v, <<"h", "t", "t", "p">>)
            /\ (Contains(<<"a", "p", "i">>, Lower(text.v)) \/ Contains(<<"w", "e", "b", "h", "o", "o", "k">>, Lower(text.v)))
         THEN FALSE
    ELSE IF Len(text.v) > 1000 /\ AnyIn(prompt_indicators, text.v) THEN FALSE
    ELSE TRUE

\* lines 807-851
is_real_conversation_message(text) ==
    IF ~IsStr(text) \/ Len(Strip(text.v)) < 3 THEN FALSE
    ELSE IF ContainsTechnicalKeyword(text.v) THEN FALSE
    ELSE IF StartsWith(text.v, <<"{">>) /\ EndsWith(text.v, <<"}">>) THEN FALSE
    ELSE IF /\ StartsWith(text.v, <<"h", "t", "t", "p">>)
            /\ (Contains(<<"a", "p", "i">>, Lower(text.v)) \/ Contains(<<"w", "e", "b", "h", "o", "o", "k">>, Lower(text.v)))
         THEN FALSE
    ELSE IF Len(text.v) > 1000 /\ AnyIn(prompt_indicators, text.v) THEN FALSE
    ELSE IF /\ Len(text.v) < 50
            /\ (IsDigit(text.v) \/ (IsAlnum(text.v) /\ Len(text.v) > 20))
         THEN FALSE
    ELSE TRUE

----------------------------------------------------------------------------
(* str(x) of a decoded JSON value *)

\* the decimal digits of a natural number
RECURSIVE IntDigits(_)
IntDigits(n) ==
    IF n < 10 THEN <<ToString(n)>> ELSE IntDigits(n \div 10) \o <<ToString(n % 10)>>

\* s with a backslash put before every q and every backslash
Escaped(s, q) ==
    LET marked == {n \in 1..Len(s) : s[n] = q \/ s[n] = "\\"}
        place(n) == n + Cardinality({e \in marked : e <= n})
    IN  [j \in 1..(Len(s) + Cardinality(marked)) |->
            IF \E n \in 1..Len(s) : place(n) = j
            THEN s[CHOOSE n \in 1..Len(s) : place(n) = j]
            ELSE "\\"]

\* repr of a str: double quotes when it holds ' and no ", else single quotes
ReprStr(s) ==
    IF Contains(<<"'">>, s) /\ ~Contains(<<"\"">>, s)
    THEN <<"\"">> \o Escaped(s, "\"") \o <<"\"">>
    ELSE <<"'">> \o Escaped(s, "'") \o <<"'">>

RECURSIVE Repr(_)
RECURSIVE ReprItems(_, _)
Repr(x) ==
    CASE x.t = "str" -> ReprStr(x.v)
      [] x.t = "num" -> x.v
      [] x.t = "bool" -> x.v
      [] x.t = "null" -> <<"N", "o", "n", "e">>
      [] x.t = "list" -> <<"[">> \o ReprItems(x, 1) \o <<"]">>
      [] x.t = "obj" -> <<"{">> \o ReprItems(x, 1) \o <<"}">>

ReprItems(x, n) ==
    IF n > Len(x.v) THEN <<>>
    ELSE (IF n > 1 THEN <<",", " ">> ELSE <<>>)
         \o (IF x.t = "obj"
             THEN ReprStr(x.v[n].k) \o <<":", " ">> \o Repr(x.v[n].v)
             ELSE Repr(x.v[n]))
         \o ReprItems(x, n + 1)

\* str(x): a str is itself, everything else is its repr
PyStr(x) == IF x.t = "str" THEN x.v ELSE Repr(x)

----------------------------------------------------------------------------
(* UserInfoExtractor *)

is_valid_phone_number(phone_str) ==
    IF ~IsStr(phone_str) \/ ~IsDigit(phone_str.v) THEN FALSE
    ELSE IF Len(phone_str.v) >= 7 /\ Len(phone_str.v) <= 15 THEN TRUE
    ELSE FALSE

\* The accumulator holds the two nonlocal variables of search_user_info and
\* the exception, if any, that left the traversal.
NoUserInfo == [phone_number |-> Null, user_name |-> Null, raised |-> "none"]

\* lines 374-386: the name branch for one (key, value) of an object
NameStep(data, value, acc) ==
    LET literal == IF Len(value.v) > 3 /\ ~IsDigit(value.v)
                   THEN [acc EXCEPT !.user_name = value] ELSE acc
    IN  IF ~IntParses(value.v) THEN literal
        ELSE LET name_ref == IntValue(value.v)
             IN  IF ~(name_ref < Len(data.v)) THEN acc
                 ELSE IF IsObj(data) THEN [acc EXCEPT !.raised = "KeyError"]
                 ELSE IF ~IndexInRange(name_ref, Len(data.v)) THEN literal
                 ELSE LET potential_name == ListAt(data.v, name_ref)
                      IN  IF /\ IsStr(potential_name)
                             /\ Len(potential_name.v) > 3
                             /\ ~IsDigit(potential_name.v)
                          THEN [acc EXCEPT !.user_name = potential_name]
                          ELSE acc

\* variant: a bare string replaces the phone number recorded before
BareStringOverwrites(obj, acc) ==
    IF is_valid_phone_number(obj) THEN [acc EXCEPT !.phone_number = obj] ELSE acc

\* lines 395-399: a string met by the traversal
BareString(obj, acc) ==
    IF is_valid_phone_number(obj) /\ acc.phone_number = Null
    THEN [acc EXCEPT !.phone_number = obj] ELSE acc

RECURSIVE search_user_info(_, _, _)
RECURSIVE SearchUserItems(_, _, _, _)
search_user_info(data, obj, acc) ==
    IF acc.raised # "none" THEN acc
    ELSE IF IsObj(obj) \/ IsList(obj) THEN SearchUserItems(data, obj, 1, acc)
    ELSE IF IsStr(obj) THEN BareString(obj, acc)
    ELSE acc

\* the loop over obj.items() (lines 368-389) or over the list (392-393)
SearchUserItems(data, obj, n, acc) ==
    IF n > Len(obj.v) \/ acc.raised # "none" THEN acc
    ELSE IF IsList(obj)
         THEN SearchUserItems(data, obj, n + 1, search_user_info(data, obj.v[n], acc))
    ELSE LET key == obj.v[n].k
             value == obj.v[n].v
             a1 == IF /\ Contains(<<"f", "r", "o", "m">>, Lower(key)) /\ IsStr(value)
                      /\ is_valid_phone_number(value)
                   THEN [acc EXCEPT !.phone_number = value] ELSE acc
             a2 == IF Contains(<<"n", "a", "m", "e">>, Lower(key)) /\ IsStr(value)
                   THEN NameStep(data, value, a1) ELSE a1
         IN  SearchUserItems(data, obj, n + 1, search_user_info(data, value, a2))

extract_user_info(data) == search_user_info(data, data, NoUserInfo)

----------------------------------------------------------------------------
(* SenderClassifier *)

strong_user_patterns ==
    << <<"h", "o", "l", "a">>, <<"h", "e", "l", "l", "o">>, <<"h", "i">>, <<"g", "r", "a", "c", "i", "a", "s">>, <<"t", "h", "a", "n", "k", "s">>, <<"o", "k">>, <<"s", "i">>, <<"y", "e", "s">>,
       <<"n", "o">>, <<"c", "o", "t", "i", "z", "a">>, <<"c", "o", "t", "i", "z", "a", "m", "e">>, <<"p", "r", "e", "c", "i", "o">>, <<"c", "u", "a", "n", "t", "o">>, <<"h", "o", "w", " ", "m", "u", "c", "h">>,
       <<"q", "u", "i", "e", "r", "o">>, <<"n", "e", "c", "e", "s", "i", "t", "o">>, <<"d", "a", "m", "e">>, <<"e", "n", "v", "í", "a">>, <<"m", "a", "n", "d", "a">>, <<"p", "o", "r", " ", "f", "a", "v", "o", "r">> >>

strong_bot_patterns ==
    << <<"p", "u", "e", "d", "o", " ", "a", "y", "u", "d", "a", "r", "t", "e">>, <<"c", "a", "n", " ", "i", " ", "h", "e", "l", "p">>, <<"t", "e", " ", "r", "e", "c", "o", "m", "i", "e", "n", "d", "o">>, <<"i", " ", "r", "e", "c", "o", "m", "m", "e", "n", "d">>,
       <<"c", "o", "n", "t", "a", "c", "t", "a", "r">>, <<"c", "o", "n", "t", "a", "c", "t">>, <<"e", "s", "p", "e", "c", "i", "a", "l", "i", "s", "t", "a">>, <<"s", "p", "e", "c", "i", "a", "l", "i", "s", "t">>, <<"c", "a", "t", "á", "l", "o", "g", "o">>,
       <<"i", "n", "f", "o", "r", "m", "a", "c", "i", "ó", "n">>, <<"i", "n", "f", "o", "r", "m", "a", "t", "i", "o", "n">>, <<"w", "h", "a", "t", "s", "a", "p", "p">>, <<"e", "n", "l", "a", "c", "e">>, <<"l", "i", "n", "k">>,
       <<"d", "e", " ", "n", "a", "d", "a">>, <<"y", "o", "u", "'", "r", "e", " ", "w", "e", "l", "c", "o", "m", "e">>, <<"b", "u", "e", "n", " ", "d", "í", "a">>, <<"g", "o", "o", "d", " ", "d", "a", "y">>,
       <<"s", "i", " ", "n", "e", "c", "e", "s", "i", "t", "a", "s">>, <<"i", "f", " ", "y", "o", "u", " ", "n", "e", "e", "d">>, <<"n", "o", " ", "d", "u", "d", "e", "s">>, <<"d", "o", "n", "'", "t", " ", "h", "e", "s", "i", "t", "a", "t", "e">> >>

\* number of patterns that occur in s
Matches(patterns, s) == Cardinality({n \in 1..Len(patterns) : Contains(patterns[n], s)})

\* range(max(0, content_position - search_range),
\*       min(len(data), content_position + search_range)), 0-based
search_range == 20

Inf == 1000000

Abs(n) == IF n < 0 THEN 0 - n ELSE n

\* variant: at equal distances the HumanMessage wins
PositionalTiesToUser(content, data) ==
    IF ~IsList(data) THEN "none"
    ELSE LET hits == {n \in 0..(Len(data.v) - 1) :
                        /\ IsStr(data.v[n + 1])
                        /\ Strip(data.v[n + 1].v) = Strip(content)}
         IN  IF hits = {} THEN "none"
             ELSE LET content_position == MinOf(hits)
                      window == {k \in 0..(Len(data.v) - 1) :
                                   /\ k >= MaxOf({0, content_position - search_range})
                                   /\ k < MinOf({Len(data.v), content_position + search_range})}
                      human_positions == {k \in window : StrEq(data.v[k + 1], <<"H", "u", "m", "a", "n", "M", "e", "s", "s", "a", "g", "e">>)}
                      ai_positions == {k \in window : StrEq(data.v[k + 1], <<"A", "I", "M", "e", "s", "s", "a", "g", "e">>)}
                      closest_human_dist ==
                          IF human_positions = {} THEN Inf
                          ELSE MinOf({Abs(pos - content_position) : pos \in human_positions})
                      closest_ai_dist ==
                          IF ai_positions = {} THEN Inf
                          ELSE MinOf({Abs(pos - content_position) : pos \in ai_positions})
                  IN  IF closest_human_dist <= closest_ai_dist /\ closest_human_dist <= 15
                      THEN "user"
                      ELSE IF closest_ai_dist < closest_human_dist /\ closest_ai_dist <= 15
                      THEN "bot"
                      ELSE "none"

\* lines 674-711: "user", "bot", or "none" when the positional rule is silent
PositionalSender(content, data) ==
    IF ~IsList(data) THEN "none"
    ELSE LET hits == {n \in 0..(Len(data.v) - 1) :
                        /\ IsStr(data.v[n + 1])
                        /\ Strip(data.v[n + 1].v) = Strip(content)}
         IN  IF hits = {} THEN "none"
             ELSE LET content_position == MinOf(hits)
                      window == {k \in 0..(Len(data.v) - 1) :
                                   /\ k >= MaxOf({0, content_position - search_range})
                                   /\ k < MinOf({Len(data.v), content_position + search_range})}
                      human_positions == {k \in window : StrEq(data.v[k + 1], <<"H", "u", "m", "a", "n", "M", "e", "s", "s", "a", "g", "e">>)}
                      ai_positions == {k \in window : StrEq(data.v[k + 1], <<"A", "I", "M", "e", "s", "s", "a", "g", "e">>)}
                      closest_human_dist ==
                          IF human_positions = {} THEN Inf
                          ELSE MinOf({Abs(pos - content_position) : pos \in human_positions})
                      closest_ai_dist ==
                          IF ai_positions = {} THEN Inf
                          ELSE MinOf({Abs(pos - content_position) : pos \in ai_positions})
                  IN  IF closest_human_dist < closest_ai_dist /\ closest_human_dist <= 15
                      THEN "user"
                      ELSE IF closest_ai_dist < closest_human_dist /\ closest_ai_dist <= 15
                      THEN "bot"
                      ELSE "none"

\* lines 749-752: what the length of the content adds to user_score
LengthUserScore(length) ==
    IF length < 20 THEN 4 ELSE IF length < 50 THEN 2 ELSE 0

\* lines 749-756: what the length of the content adds to bot_score; the
\* branch of line 755 follows the test of line 753
LengthBotScore(length) ==
    IF length < 20 THEN 0 ELSE IF length < 50 THEN 0
    ELSE IF length > 150 THEN 3 ELSE IF length > 300 THEN 5 ELSE 0

\* lines 738-740, 765-766, 782-787, 798-799: the other user signals
OtherUserScore(content, content_lower, length) ==
      3 * Matches(strong_user_patterns, content_lower)
    + (IF length < 30 /\ ~EndsWith(content, <<"?">>) THEN 3 ELSE 0)
    \* the three emoji are single characters, written by code point
    + (IF AnyIn(<< <<"U+1F60A">>, <<"U+1F604">>, <<"U+1F44D">>, <<":", ")">>, <<":", "D">>, <<"j", "a", "j", "a">>, <<"j", "e", "j", "e">> >>,
                content)
       THEN 2 ELSE 0)
    + (IF StartsWith(content_lower, <<"h", "o", "l", "a">>) /\ length < 30 THEN 6 ELSE 0)
    + (IF AnyIn(<< <<"d", "a", "m", "e">>, <<"q", "u", "i", "e", "r", "o">>, <<"n", "e", "c", "e", "s", "i", "t", "o">> >>, content_lower) /\ length < 100
       THEN 5 ELSE 0)

\* lines 742-744, 761-762, 769-779, 790-791: the other bot signals
OtherBotScore(content, content_lower, length) ==
      3 * Matches(strong_bot_patterns, content_lower)
    + (IF EndsWith(content, <<"?">>) /\ length > 30 THEN 4 ELSE 0)
    + (IF \/ Contains(<<"h", "t", "t", "p">>, content_lower) \/ Contains(<<"w", "a", ".", "m", "e">>, content_lower)
          \/ Contains(<<"w", "w", "w", ".">>, content_lower)
       THEN 8 ELSE 0)
    + (IF Count(content, ".") + Count(content, "!") + Count(content, "?") > 1
       THEN 3 ELSE 0)
    + (IF AnyIn(<< <<"S", "r", ".">>, <<"S", "r", "a", ".">>, <<"e", "s", "t", "i", "m", "a", "d", "o">>, <<"e", "s", "t", "i", "m", "a", "d", "a">> >>, content)
       THEN 3 ELSE 0)
    + (IF AnyIn(<< <<"p", "u", "e", "d", "o", " ", "a", "y", "u", "d", "a", "r", "t", "e">>, <<"e", "n", " ", "q", "u", "é", " ", "p", "u", "e", "d", "o">>, <<"c", "ó", "m", "o", " ", "p", "u", "e", "d", "o">> >>, content_lower)
       THEN 8 ELSE 0)

\* lines 734-799: the scores when line 802 is reached
user_score(content) ==
    LengthUserScore(Len(content)) + OtherUserScore(content, Lower(content), Len(content))

bot_score(content) ==
    LengthBotScore(Len(content)) + OtherBotScore(content, Lower(content), Len(content))

\* variant: equal scores give the bot
TiesToBot(content) ==
    IF Contains(<<"c", "o", "t", "i", "z", "a">>, Lower(content)) /\ Len(content) < 100 THEN "user"
    ELSE IF bot_score(content) >= user_score(content) THEN "bot"
    ELSE "user"

\* lines 713-805: the scored heuristic
ScoredSender(content) ==
    IF Contains(<<"c", "o", "t", "i", "z", "a">>, Lower(content)) /\ Len(content) < 100 THEN "user"
    ELSE IF bot_score(content) > user_score(content) THEN "bot"
    ELSE "user"

\* variant: the position of the content is consulted before the rules on
\* the content itself
PositionalFirst(content, path, data) ==
    IF PositionalSender(content, data) # "none" THEN PositionalSender(content, data)
    ELSE IF Lower(Strip(content)) \in {<<"h", "o", "l", "a", " ", "1", "3", "5", "6">>, <<"c", "o", "t", "i", "z", "a", "m", "e", " ", "1", " ", "c", "i", "e", "n", "t", "o", " ", "d", "e", " ", "l", "l", "a", "v", "e", "s">>, <<"o", "k", " ", "g", "r", "a", "c", "i", "a", "s">>}
    THEN "user"
    ELSE IF AnyIn(<< <<"¿", "e", "n", " ", "q", "u", "é", " ", "p", "u", "e", "d", "o", " ", "a", "y", "u", "d", "a", "r", "t", "e">>, <<"t", "e", " ", "r", "e", "c", "o", "m", "i", "e", "n", "d", "o", " ", "c", "o", "n", "t", "a", "c", "t", "a", "r">>,
                     <<"d", "e", " ", "n", "a", "d", "a", "!", " ", "s", "i", " ", "n", "e", "c", "e", "s", "i", "t", "a", "s">> >>, Lower(Strip(content)))
    THEN "bot"
    ELSE IF Contains(<<"c", "o", "t", "i", "z", "a">>, Lower(Strip(content))) /\ Len(content) < 100 THEN "user"
    ELSE ScoredSender(content)

determine_sender(content, path, data) ==
    LET content_clean == Lower(Strip(content))
        positional == PositionalSender(content, data)
    IN  IF content_clean = <<"h", "o", "l", "a", " ", "1", "3", "5", "6">> THEN "user"
        ELSE IF content_clean = <<"c", "o", "t", "i", "z", "a", "m", "e", " ", "1", " ", "c", "i", "e", "n", "t", "o", " ", "d", "e", " ", "l", "l", "a", "v", "e", "s">> THEN "user"
        ELSE IF content_clean = <<"o", "k", " ", "g", "r", "a", "c", "i", "a", "s">> THEN "user"
        ELSE IF Contains(<<"¿", "e", "n", " ", "q", "u", "é", " ", "p", "u", "e", "d", "o", " ", "a", "y", "u", "d", "a", "r", "t", "e">>, content_clean) THEN "bot"
        ELSE IF Contains(<<"t", "e", " ", "r", "e", "c", "o", "m", "i", "e", "n", "d", "o", " ", "c", "o", "n", "t", "a", "c", "t", "a", "r">>, content_clean) THEN "bot"
        ELSE IF Contains(<<"d", "e", " ", "n", "a", "d", "a", "!", " ", "s", "i", " ", "n", "e", "c", "e", "s", "i", "t", "a", "s">>, content_clean) THEN "bot"
        ELSE IF Contains(<<"c", "o", "t", "i", "z", "a">>, content_clean) /\ Len(content) < 100 THEN "user"
        ELSE IF positional # "none" THEN positional
        ELSE ScoredSender(content)

----------------------------------------------------------------------------
(* ContentExtractor *)

HasKey(obj, key) == \E n \in 1..Len(obj.v) : obj.v[n].k = key
ObjGet(obj, key) == obj.v[CHOOSE n \in 1..Len(obj.v) : obj.v[n].k = key].v

\* variant: the search for a marker left out
NoMarkerCheck(data) == TRUE

\* lines 531-534
HasMarker(data) ==
    \E n \in 1..Len(data.v) :
        StrEq(data.v[n], <<"H", "u", "m", "a", "n", "M", "e", "s", "s", "a", "g", "e">>) \/ StrEq(data.v[n], <<"A", "I", "M", "e", "s", "s", "a", "g", "e">>)

\* variant: the content is never taken as a reference
ContentStepLiteral(data, obj, path) ==
    LET c == ObjGet(obj, <<"c", "o", "n", "t", "e", "n", "t">>)
    IN  IF is_real_conversation_message(c)
        THEN << [content |-> c.v, path |-> path, ref |-> <<>>] >> ELSE <<>>

\* lines 546-565: what one object with a str 'content' appends
ContentStep(data, obj, path) ==
    LET c == ObjGet(obj, <<"c", "o", "n", "t", "e", "n", "t">>)
        literal == IF is_real_conversation_message(c)
                   THEN << [content |-> c.v, path |-> path, ref |-> <<>>] >> ELSE <<>>
    IN  IF ~IntParses(c.v) THEN literal
        ELSE LET content_ref == IntValue(c.v)
             IN  IF ~(content_ref < Len(data.v)) THEN <<>>
                 ELSE IF ~IndexInRange(content_ref, Len(data.v)) THEN literal
                 ELSE LET actual_content == ListAt(data.v, content_ref)
                      IN  IF IsStr(actual_content) /\ is_real_conversation_message(actual_content)
                          THEN << [content |-> actual_content.v, path |-> path,
                                   ref |-> <<content_ref>>] >>
                          ELSE <<>>

RECURSIVE find_content_references(_, _, _)
RECURSIVE FindContentItems(_, _, _, _)
find_content_references(data, obj, path) ==
    IF IsObj(obj)
    THEN (IF HasKey(obj, <<"c", "o", "n", "t", "e", "n", "t">>) /\ IsStr(ObjGet(obj, <<"c", "o", "n", "t", "e", "n", "t">>))
          THEN ContentStep(data, obj, path) ELSE <<>>)
         \o FindContentItems(data, obj, path, 1)
    ELSE IF IsList(obj) THEN FindContentItems(data, obj, path, 1)
    ELSE <<>>

\* the recursive calls of lines 568-569 and 572-573, in order
FindContentItems(data, obj, path, n) ==
    IF n > Len(obj.v) THEN <<>>
    ELSE (IF IsObj(obj)
          THEN find_content_references(data, obj.v[n].v,
                   IF path # <<>> THEN path \o <<".">> \o obj.v[n].k ELSE obj.v[n].k)
          ELSE find_content_references(data, obj.v[n],
                   path \o <<"[">> \o IntDigits(n - 1) \o <<"]">>))
         \o FindContentItems(data, obj, path, n + 1)

\* variant: every entry is kept
NoDeduplicate(content_messages, seen_contents) == content_messages

\* lines 577-587: keep the first entry of every content
RECURSIVE Deduplicate(_, _)
Deduplicate(content_messages, seen_contents) ==
    IF content_messages = <<>> THEN <<>>
    ELSE LET msg_info == Head(content_messages)
         IN  IF msg_info.content \in seen_contents
             THEN Deduplicate(Tail(content_messages), seen_contents)
             ELSE <<msg_info>>
                  \o Deduplicate(Tail(content_messages), seen_contents \cup {msg_info.content})

\* lines 589-600
AttributeSenders(unique_messages, data) ==
    [n \in 1..Len(unique_messages) |->
        [sender |-> determine_sender(unique_messages[n].content, unique_messages[n].path, data),
         text |-> unique_messages[n].content]]

----------------------------------------------------------------------------
(* TimestampExtractor *)

\* Numbers are compared as digit sequences without leading zeros.
DigitsLess(a, b) ==
    \/ Len(a) < Len(b)
    \/ /\ Len(a) = Len(b)
       /\ \E n \in 1..Len(a) :
            /\ SubSeq(a, 1, n - 1) = SubSeq(b, 1, n - 1)
            /\ DigitsVal(<<a[n]>>) < DigitsVal(<<b[n]>>)

\* milliseconds and seconds per unit of timedelta
MsPerSecond == 1000
MsPerMinute == 60 * MsPerSecond
MsPerHour == 60 * MsPerMinute

\* datetime.fromtimestamp(value / 1000), value > 10^12: an instant up to
\* year 9999, OverflowError once value / 1000 does not fit the platform
\* time_t, ValueError or OSError between the two
FromMillis(d) ==
    IF ~DigitsLess(<<"2", "5", "3", "4", "0", "2", "3", "0", "0", "7", "9", "9", "9", "9", "9">>, d)
    THEN [kind |-> "ok",
          at |-> (DigitsVal(SubSeq(d, 1, Len(d) - 9)) - 1000) * 1000000000
                 + DigitsVal(SubSeq(d, Len(d) - 8, Len(d)))]
    ELSE IF DigitsLess(d, <<"9", "2", "2", "3", "3", "7", "2", "0", "3", "6", "8", "5", "4", "7", "7", "5", "8", "0", "7", "0", "0", "0">>)
    THEN [kind |-> "ValueError", at |-> 0]
    ELSE [kind |-> "OverflowError", at |-> 0]

\* datetime.fromtimestamp(value), 10^9 < value <= 10^12
FromSeconds(d) ==
    IF ~DigitsLess(<<"2", "5", "3", "4", "0", "2", "3", "0", "0", "7", "9", "9">>, d)
    THEN [kind |-> "ok", at |-> (DigitsVal(d) - 1000000000) * MsPerSecond]
    ELSE [kind |-> "ValueError", at |-> 0]

\* lines 479-487
NumberTimestamp(value) ==
    IF DigitsLess(<<"1", "0", "0", "0", "0", "0", "0", "0", "0", "0", "0", "0", "0">>, value.v) THEN FromMillis(value.v)
    ELSE IF DigitsLess(<<"1", "0", "0", "0", "0", "0", "0", "0", "0", "0">>, value.v) THEN FromSeconds(value.v)
    ELSE [kind |-> "ignored", at |-> 0]

\* datetime.strptime(value, fmt).  A format is a sequence of directives
\* "%Y" "%m" "%d" "%H" "%M" "%S" and literal characters.  %Y takes four
\* digits, the other directives one or two; a blank in the format takes one or
\* more blanks; letters match without regard to case; the whole value must be
\* consumed.  Parses(fmt, s) is the set of field assignments of the matches.
Directives == {"%Y", "%m", "%d", "%H", "%M", "%S"}

NoFields == [Y |-> 1900, m |-> 1, d |-> 1, H |-> 0, M |-> 0, S |-> 0]

FieldOk(dir, n) ==
    CASE dir = "%Y" -> TRUE
      [] dir = "%m" -> 1 <= n /\ n <= 12
      [] dir = "%d" -> 1 <= n /\ n <= 31
      [] dir = "%H" -> n <= 23
      [] dir = "%M" -> n <= 59
      [] dir = "%S" -> n <= 61

SetField(f, dir, n) ==
    CASE dir = "%Y" -> [f EXCEPT !.Y = n]
      [] dir = "%m" -> [f EXCEPT !.m = n]
      [] dir = "%d" -> [f EXCEPT !.d = n]
      [] dir = "%H" -> [f EXCEPT !.H = n]
      [] dir = "%M" -> [f EXCEPT !.M = n]
      [] dir = "%S" -> [f EXCEPT !.S = n]

RECURSIVE Parses(_, _, _)
Parses(fmt, s, f) ==
    IF fmt = <<>> THEN (IF s = <<>> THEN {f} ELSE {})
    ELSE LET dir == Head(fmt)
             widths == IF dir = "%Y" THEN {4}
                       ELSE IF dir \in Directives THEN {1, 2}
                       ELSE IF dir = " " THEN 1..Len(s)
                       ELSE {1}
         IN  UNION { LET raw == SubSeq(s, 1, w)
                         \* %d also takes a blank followed by one digit
                         piece == IF dir = "%d" /\ w = 2 /\ raw[1] = " " THEN <<raw[2]>>
                                  ELSE raw
                         rest == SubSeq(s, w + 1, Len(s))
                     IN  IF dir \in Directives
                         THEN IF IsDecimal(piece) /\ FieldOk(dir, DigitsVal(piece))
                              THEN Parses(Tail(fmt), rest, SetField(f, dir, DigitsVal(piece)))
                              ELSE {}
                         ELSE IF dir = " "
                         THEN IF \A n \in 1..w : piece[n] \in SpaceChars
                              THEN Parses(Tail(fmt), rest, f) ELSE {}
                         ELSE IF Lower(piece) = Lower(<<dir>>)
                              THEN Parses(Tail(fmt), rest, f) ELSE {}
                   : w \in {x \in widths : x <= Len(s)} }

IsLeap(y) == y % 4 = 0 /\ (y % 100 # 0 \/ y % 400 = 0)

DaysInMonth(y, m) ==
    IF m = 2 THEN (IF IsLeap(y) THEN 29 ELSE 28)
    ELSE IF m \in {4, 6, 9, 11} THEN 30 ELSE 31

\* days from 1970-01-01 to the civil date
DaysFromCivil(y, m, d) ==
    LET yy == IF m <= 2 THEN y - 1 ELSE y
        era == yy \div 400
        yoe == yy - era * 400
        mp == IF m > 2 THEN m - 3 ELSE m + 9
        doy == (153 * mp + 2) \div 5 + d - 1
        doe == yoe * 365 + yoe \div 4 - yoe \div 100 + doy
    IN  era * 146097 + doe - 719468

\* the datetime of a match, or ValueError for a date that does not exist
FieldsInstant(f) ==
    IF f.Y < 1 \/ f.d > DaysInMonth(f.Y, f.m) \/ f.S > 59
    THEN [kind |-> "ValueError", at |-> 0]
    ELSE [kind |-> "ok",
          at |-> (DaysFromCivil(f.Y, f.m, f.d) * 86400 + f.H * 3600 + f.M * 60 + f.S
                  - 1000000000) * MsPerSecond]

strptime(value, fmt) ==
    LET ps == Parses(fmt, value, NoFields)
    IN  IF ps = {} THEN [kind |-> "ValueError", at |-> 0]
        ELSE FieldsInstant(CHOOSE f \in ps : TRUE)

\* line 490
formats ==
    << <<"%Y", "-", "%m", "-", "%d", " ", "%H", ":", "%M", ":", "%S">>,
       <<"%Y", "-", "%m", "-", "%d", "T", "%H", ":", "%M", ":", "%S">>,
       <<"%d", "/", "%m", "/", "%Y", " ", "%H", ":", "%M", ":", "%S">>,
       <<"%Y", "-", "%m", "-", "%d">>,
       <<"%d", "/", "%m", "/", "%Y">> >>

\* lines 490-496: the first format that parses wins
FirstFormat(value, good) ==
    IF good = {} THEN [kind |-> "ignored", at |-> 0]
    ELSE strptime(value.v, formats[MinOf(good)])

StringTimestamp(value) ==
    FirstFormat(value, {n \in 1..Len(formats) : strptime(value.v, formats[n]).kind = "ok"})

time_keys == << <<"t", "i", "m", "e">>, <<"d", "a", "t", "e">>, <<"c", "r", "e", "a", "t", "e", "d">>, <<"t", "i", "m", "e", "s", "t", "a", "m", "p">>, <<"a", "t">> >>

\* lines 476-498 for one (key, value): the instant appended, nothing, or the
\* exception that the handler (ValueError, OSError) lets through
TimestampStep(key, value) ==
    IF ~(\E n \in 1..Len(time_keys) : Contains(time_keys[n], Lower(key)))
    THEN [kind |-> "ignored", at |-> 0]
    ELSE LET r == IF IsNum(value) THEN NumberTimestamp(value)
                  ELSE IF IsStr(value) THEN StringTimestamp(value)
                  ELSE [kind |-> "ignored", at |-> 0]
         IN  IF r.kind = "ValueError" THEN [kind |-> "ignored", at |-> 0] ELSE r

\* The accumulator is the list timestamps and the exception that left the
\* traversal, if any.
RECURSIVE search_for_timestamps(_, _)
RECURSIVE SearchTimestampItems(_, _, _)
search_for_timestamps(obj, acc) ==
    IF IsObj(obj) \/ IsList(obj) THEN SearchTimestampItems(obj, 1, acc) ELSE acc

SearchTimestampItems(obj, n, acc) ==
    IF n > Len(obj.v) \/ acc.raised # "none" THEN acc
    ELSE IF IsList(obj)
         THEN SearchTimestampItems(obj, n + 1, search_for_timestamps(obj.v[n], acc))
    ELSE LET r == TimestampStep(obj.v[n].k, obj.v[n].v)
         IN  IF r.kind = "OverflowError"
             THEN [acc EXCEPT !.raised = "OverflowError"]
             ELSE IF r.kind = "ok"
             THEN SearchTimestampItems(obj, n + 1,
                      search_for_timestamps(obj.v[n].v,
                          [acc EXCEPT !.timestamps = Append(@, r.at)]))
             ELSE SearchTimestampItems(obj, n + 1, search_for_timestamps(obj.v[n].v, acc))

\* list.sort() on instants
RECURSIVE InsertInstant(_, _)
InsertInstant(sorted, x) ==
    IF sorted = <<>> THEN <<x>>
    ELSE IF x < Head(sorted) THEN <<x>> \o sorted
    ELSE <<Head(sorted)>> \o InsertInstant(Tail(sorted), x)

\* variant: the instants stay in traversal order
TraversalOrder(xs) == xs

RECURSIVE SortInstants(_)
SortInstants(xs) ==
    IF xs = <<>> THEN <<>>
    ELSE InsertInstant(SortInstants(SubSeq(xs, 1, Len(xs) - 1)), xs[Len(xs)])

\* lines 509-513
SyntheticCount == 10

\* variant: the base is the current time, not one hour before it
SyntheticFromNow(now) ==
    [n \in 1..SyntheticCount |-> now + (n - 1) * 2 * MsPerMinute]

SyntheticTimestamps(now) ==
    [n \in 1..SyntheticCount |-> (now - MsPerHour) + (n - 1) * 2 * MsPerMinute]

\* extract_timestamps_from_data, called when the clock reads now
extract_timestamps_from_data(data, now) ==
    LET found == search_for_timestamps(data, [timestamps |-> <<>>, raised |-> "none"])
    IN  IF found.raised # "none" THEN found
        ELSE IF found.timestamps = <<>>
        THEN [timestamps |-> SortInstants(SyntheticTimestamps(now)), raised |-> "none"]
        ELSE [timestamps |-> SortInstants(found.timestamps), raised |-> "none"]

----------------------------------------------------------------------------
(* ConversationAssembler: extract_chat_messages as a state machine *)

\* bounds of the model
MaxLen == 3
MaxTicks == 1
MaxCalls == 2

\* the clock when the first request arrives, and the time between two
\* observations of the clock
FirstNow == 10 * MsPerMinute
TickMs == 30 * MsPerSecond

\* elements of the root sequences
Elems ==
    << Str(<<"H", "u", "m", "a", "n", "M", "e", "s", "s", "a", "g", "e">>),
       Str(<<"A", "I", "M", "e", "s", "s", "a", "g", "e">>),
       Str(<<"h", "o", "l", "a">>),
       Str(<<"p", "r", "o", "m", "p", "t", "_", "t", "o", "k", "e", "n", "s">>),
       Obj(<< KV(<<"c", "o", "n", "t", "e", "n", "t">>, Str(<<"2">>)) >>),
       Obj(<< KV(<<"c", "o", "n", "t", "e", "n", "t">>, Str(<<"-", "1">>)),
              KV(<<"x">>, Obj(<< KV(<<"c", "o", "n", "t", "e", "n", "t">>, Str(<<"+", "9", "9">>)) >>)) >>),
       Obj(<< KV(<<"c", "o", "n", "t", "e", "n", "t">>, Str(<<"h", "o", "l", "a">>)), KV(<<"a", "t">>, Num(<<"1", "0", "0", "0", "0", "0", "0", "5", "7", "0">>)) >>),
       Obj(<< KV(<<"c", "o", "n", "t", "e", "n", "t">>, Str(<<"a", "d", "i", "o", "s">>)) >>) >>

\* the first n characters of s repeated
Repeated(s, n) == [k \in 1..n |-> s[((k - 1) % Len(s)) + 1]]

\* further logs: roots that are no sequence, and sequences with values that
\* the extractors must survive
SpecialRoots ==
    << Obj(<< KV(<<"n", "a", "m", "e">>, Str(<<"0">>)) >>),
       Obj(<< KV(<<"u", "s", "e", "r", "_", "n", "a", "m", "e">>, Str(<<"J", "u", "a", "n", " ", "P", "e", "r", "e", "z">>)), KV(<<"c", "o", "n", "t", "e", "n", "t">>, Str(<<"h", "o", "l", "a">>)),
              KV(<<"m", "s", "g", "s">>, List(<< Str(<<"H", "u", "m", "a", "n", "M", "e", "s", "s", "a", "g", "e">>), Str(<<"h", "o", "l", "a">>) >>)) >>),
       Str(<<"h", "o", "l", "a">>),
       Num(<<"1", "0", "0", "0", "0", "0", "0", "5", "7", "0">>),
       Null,
       List(<< Str(<<"H", "u", "m", "a", "n", "M", "e", "s", "s", "a", "g", "e">>), Str(<<"h", "o", "l", "a">>),
               Obj(<< KV(<<"t", "i", "m", "e">>, Num(<<"1", "0", "0", "0", "0", "0", "0", "0", "0", "0", "0", "0", "0", "0", "0", "0", "0", "0", "0", "0", "0", "0", "0", "0", "0", "0", "0", "0", "0", "0", "0">>)) >>) >>),
       List(<< Str(<<"H", "u", "m", "a", "n", "M", "e", "s", "s", "a", "g", "e">>),
               Obj(<< KV(<<"c", "o", "n", "t", "e", "n", "t">>, Str(<<"x", " ", "p", "r", "o", "m", "p", "t", "_", "t", "o", "k", "e", "n", "s">>)),
                      KV(<<"c", "r", "e", "a", "t", "e", "d", "_", "a", "t">>, Str(<<"2", "0", "0", "1", "-", "0", "9", "-", "0", "9", " ", "0", "1", ":", "5", "5", ":", "4", "0">>)) >>),
               Obj(<< KV(<<"c", "o", "n", "t", "e", "n", "t">>, Str(<<"-", "9", "9">>)), KV(<<"d", "a", "t", "e">>, Str(<<"a", "y", "e", "r">>)),
                      KV(<<"u", "p", "d", "a", "t", "e", "d">>, Num(<<"5">>)),
                      KV(<<"T", "i", "m", "e", "s", "t", "a", "m", "p">>, Num(<<"1", "0", "0", "0", "0", "0", "0", "5", "4", "0", "1", "2", "3">>)) >>) >>),
       List(<< Str(<<"A", "I", "M", "e", "s", "s", "a", "g", "e">>), Null, Str(<<"H", "u", "m", "a", "n", "M", "e", "s", "s", "a", "g", "e">>),
               List(<< Str(<<"h", "o", "l", "a">>) >>),
               Str(<<"A", "I", "M", "e", "s", "s", "a", "g", "e">>), Obj(<< KV(<<"k">>, Str(<<"h", "o", "l", "a">>)) >>) >>),
       List(<< Str(<<"H", "u", "m", "a", "n", "M", "e", "s", "s", "a", "g", "e">>), Str(<<"a", "d", "i", "o", "s">>), Str(<<"h", "o", "l", "a">>), Str(<<"a", "d", "i", "o", "s">>),
               Str(<<"A", "I", "M", "e", "s", "s", "a", "g", "e">>), Str(<<"h", "o", "l", "a">>) >>),
       List(<< Str(<<"A", "I", "M", "e", "s", "s", "a", "g", "e">>), Obj(<< KV(<<"c", "o", "n", "t", "e", "n", "t">>, Str(<<"a", "d", "i", "o", "s">>)) >>),
               Obj(<< KV(<<"c", "o", "n", "t", "e", "n", "t">>, Str(<<"4">>)) >>),
               Obj(<< KV(<<"c", "o", "n", "t", "e", "n", "t">>, Str(<<"a", "d", "i", "o", "s">>)) >>), Str(<<"h", "o", "l", "a">>) >>),
       \* telephone numbers, valid and not
       List(<< Str(<<"H", "u", "m", "a", "n", "M", "e", "s", "s", "a", "g", "e">>), Str(<<"h", "o", "l", "a">>), Obj(<< KV(<<"f", "r", "o", "m">>, Str(<<"²", "²", "²", "²", "²", "²", "²">>)) >>) >>),
       List(<< Str(<<"A", "I", "M", "e", "s", "s", "a", "g", "e">>), Str(<<"7", "6", "5", "4", "3", "2", "1">>),
               Obj(<< KV(<<"F", "r", "o", "m">>, Str(<<"1", "2", "3", "4", "5", "6", "7", "8", "9", "0", "1">>)), KV(<<"f", "r", "o", "m", "_", "i", "d">>, Str(<<"1", "2", "3">>)),
                      KV(<<"t", "o">>, Str(<<"1", "2", "3", "4", "5", "6", "7", "8", "9", "0", "1", "2", "3", "4", "5", "6">>)) >>),
               Str(<<"a", "b", "c", "d", "e", "f", "g">>) >>),
       \* strings of 100, 99 and 101 characters in the scan
       List(<< Str(<<"H", "u", "m", "a", "n", "M", "e", "s", "s", "a", "g", "e">>), Str(<<"h", "o", "l", "a">>), Str(Repeated(<<"h", "o", "l", "a", " ">>, 100)),
               Str(Repeated(<<"h", "o", "l", "a", " ">>, 99)), Str(<<"A", "I", "M", "e", "s", "s", "a", "g", "e">>),
               Str(Repeated(<<"a", "d", "i", "o", "s", " ">>, 101)), Str(<<"H", "u", "m", "a", "n", "M", "e", "s", "s", "a", "g", "e">>) >>),
       \* timestamps that occur in descending order, fewer than the messages
       List(<< Str(<<"H", "u", "m", "a", "n", "M", "e", "s", "s", "a", "g", "e">>),
               Obj(<< KV(<<"c", "o", "n", "t", "e", "n", "t">>, Str(<<"h", "o", "l", "a">>)), KV(<<"a", "t">>, Num(<<"1", "0", "0", "0", "0", "0", "0", "5", "7", "0">>)) >>),
               Obj(<< KV(<<"c", "o", "n", "t", "e", "n", "t">>, Str(<<"a", "d", "i", "o", "s">>)), KV(<<"a", "t">>, Num(<<"1", "0", "0", "0", "0", "0", "0", "5", "4", "0">>)) >>),
               Obj(<< KV(<<"c", "o", "n", "t", "e", "n", "t">>, Str(<<"h", "o", "l", "a", " ", "a", "m", "i", "g", "o">>)) >>) >>),
       \* and as many as the messages
       List(<< Str(<<"A", "I", "M", "e", "s", "s", "a", "g", "e">>),
               Obj(<< KV(<<"c", "o", "n", "t", "e", "n", "t">>, Str(<<"h", "o", "l", "a">>)), KV(<<"d", "a", "t", "e">>, Str(<<"0", "9", "/", "0", "9", "/", "2", "0", "0", "1", " ", "0", "1", ":", "5", "6", ":", "1", "0">>)) >>),
               Obj(<< KV(<<"c", "o", "n", "t", "e", "n", "t">>, Str(<<"a", "d", "i", "o", "s">>)), KV(<<"t", "i", "m", "e">>, Num(<<"1", "0", "0", "0", "0", "0", "0", "5", "4", "0", "1", "2", "3">>)) >>),
               Obj(<< KV(<<"a", "t">>, Num(<<"1", "0", "0", "0", "0", "0", "0", "5", "5", "5">>)) >>) >>),
       \* a marker pair and a bare string beside a 'content'
       List(<< Str(<<"H", "u", "m", "a", "n", "M", "e", "s", "s", "a", "g", "e">>), Str(<<"h", "o", "l", "a">>), Str(<<"h", "o", "l", "a", " ", "a", "m", "i", "g", "o">>),
               Obj(<< KV(<<"c", "o", "n", "t", "e", "n", "t">>, Str(<<"a", "d", "i", "o", "s">>)) >>) >>),
       List(<< Str(<<"H", "u", "m", "a", "n", "M", "e", "s", "s", "a", "g", "e">>), Str(<<"h", "o", "l", "a">>), Str(<<"7", "6", "5", "4", "3", "2", "1">>), Obj(<< KV(<<"f", "r", "o", "m">>,
               Str(<<"1", "2", "3", "4", "5", "6", "7">>)), KV(<<"x">>, Str(<<"7", "7", "7", "7", "7", "7", "7">>)) >>), Obj(<< KV(<<"F", "r", "o", "m", "_", "u", "s", "e", "r">>,
               Str(<<"7", "6", "5", "4", "3", "2", "1", "9", "8", "7">>)) >>), Str(<<"9", "9", "9", "9", "9", "9", "9">>) >>),
       List(<< Str(<<"H", "u", "m", "a", "n", "M", "e", "s", "s", "a", "g", "e">>), Str(<<"a", "b", "c">>), Obj(<< KV(<<"n", "a", "m", "e">>, Str(<<"+", "0", "0", "1">>)) >>) >>),
       List(<< Str(<<"H", "u", "m", "a", "n", "M", "e", "s", "s", "a", "g", "e">>), Str(<<"J", "u", "a", "n", " ", "P", "e", "r", "e", "z">>), Obj(<< KV(<<"n", "a", "m", "e">>, Str(<<"1">>)) >>),
               Obj(<< KV(<<"N", "a", "m", "e">>, Str(<<"L", "u", "i", "s">>)) >>), Obj(<< KV(<<"u", "s", "e", "r", "_", "n", "a", "m", "e">>,
               Str(<<"+", "9", "9", "9">>)) >>), Obj(<< KV(<<"n", "i", "c", "k", "n", "a", "m", "e">>, Str(<<"-", "0", "0", "1">>)) >>),
               Str(<<"P", "e", "d", "r", "o">>) >>),
       List(<< Str(<<"H", "u", "m", "a", "n", "M", "e", "s", "s", "a", "g", "e">>), Str(<<"h", "o", "l", "a">>), Str(<<" ", "a", " ">>), Str(<<"{", "h", "o", "l", "a", "}">>),
               Str(<<"h", "t", "t", "p", ":", "/", "/", "x", ".", "c", "o", "m", "/", "a", "p", "i", "/", "v", "1">>), Str(<<"h", "t", "t", "p", ":", "/", "/", "x", ".", "c", "o", "m", "/", "W", "e", "b", "H", "o", "o", "k">>),
               Str(<<"h", "t", "t", "p", ":", "/", "/", "x", ".", "c", "o", "m">>), Str(<<"H", "T", "T", "P", ":", "/", "/", "x", ".", "c", "o", "m", "/", "a", "p", "i">>), Str(<<"n", "o", " ", "s", "t", "o", "p", " ", "p", "l", "e", "a", "s", "e">>),
               Str(<<"Y", "o", "u", " ", "a", "r", "e", " ">> \o Repeated(<<"z">>, 993)), Str(<<"Y", "o", "u", " ", "a", "r", "e", " ">> \o Repeated(<<"z">>,
               992)), Str(Repeated(<<"h", "o", "l", "a", " ">>, 1001)), Str(<<"²", "²", "²">>), Str(Repeated(<<"z">>, 21)),
               Str(Repeated(<<"z">>, 20)), Str(Repeated(<<"z">>, 49)), Str(Repeated(<<"z">>, 50)),
               Str(Repeated(<<"z", " ", "z">>, 21)) >>),
       List(<< Str(<<"H", "u", "m", "a", "n", "M", "e", "s", "s", "a", "g", "e">>), Str(<<"h", "o", "l", "a">>), Obj(<< KV(<<"a", "t">>, Num(<<"1", "0", "0", "0", "0", "0", "0", "5", "7", "0">>)),
               KV(<<"t", "i", "m", "e">>, Num(<<"3", "0", "0", "0", "0", "0", "0", "0", "0", "0", "0", "0">>)) >>) >>) >>

\* data: the log; now: the clock; pc: the place of extract_chat_messages;
\* content_messages, messages, i, seen_texts: locals of
\* extract_conversation_from_data; scan_candidates: history of the texts that
\* passed the filter in the Phase-2 scan, in scan order; calls: history of the
\* extractors called by this request; previous: the messages returned to the
\* request before.
VARIABLES data, now, ticks, pc, user_info, content_messages, messages, i, seen_texts,
          scan_candidates, timestamps, record, calls, callNo, previous

\* list_chats_internal: executions: the rows of the SELECT; position: the
\* number of rows the loop has gone through; target_date: the set of the day
\* asked for, empty when none is; processed: history of what the loop body computed for each
\* row; chats_by_phone: the groups in insertion order; all_chats: the
\* selected summaries; chats: the summaries handed to the template.
VARIABLES executions, position, target_date, processed, chats_by_phone, all_chats, chats

listing == <<executions, position, target_date, processed, chats_by_phone, all_chats, chats>>

vars == <<data, now, ticks, pc, user_info, content_messages, messages, i, seen_texts,
          scan_candidates, timestamps, record, calls, callNo, previous, listing>>

\* no listing is under way
NoListing ==
    /\ executions = <<>>
    /\ position = 0
    /\ target_date = {}
    /\ processed = <<>>
    /\ chats_by_phone = <<>>
    /\ all_chats = <<>>
    /\ chats = <<>>

chat_id == "1"

NoRecord ==
    [id |-> chat_id, created |-> 0, updated |-> 0, messages |-> <<>>,
     no_conversation |-> FALSE, user_info |-> [phone_number |-> Null, user_name |-> Null]]

Init ==
    /\ \/ \E n \in 0..MaxLen : \E f \in [1..n -> 1..Len(Elems)] :
            data = List([k \in 1..n |-> Elems[f[k]]])
       \/ \E n \in 1..Len(SpecialRoots) : data = SpecialRoots[n]
    /\ now = FirstNow
    /\ ticks = 0
    /\ pc = "start"
    /\ user_info = [phone_number |-> Null, user_name |-> Null]
    /\ content_messages = <<>>
    /\ messages = <<>>
    /\ scan_candidates = <<>>
    /\ i = 0
    /\ seen_texts = {}
    /\ timestamps = <<>>
    /\ record = NoRecord
    /\ calls = <<>>
    /\ callNo = 1
    /\ previous = <<>>
    /\ NoListing

\* line 412: an exception of extract_user_info leaves extract_chat_messages
CallExtractUserInfo ==
    /\ pc = "start"
    /\ LET r == extract_user_info(data)
       IN  IF r.raised # "none"
           THEN pc' = "raised" /\ UNCHANGED user_info
           ELSE /\ pc' = "conversation"
                /\ user_info' = [phone_number |-> r.phone_number, user_name |-> r.user_name]
    /\ calls' = Append(calls, "extract_user_info")
    /\ UNCHANGED <<content_messages, scan_candidates, data, now, ticks, messages, i, seen_texts, timestamps, record,
                   callNo, previous>>
    /\ UNCHANGED listing

\* variant: the scan of Phase 2 follows Phase 1 whatever Phase 1 found
Phase1ThenScan ==
    /\ pc = "conversation"
    /\ calls' = Append(calls, "extract_conversation_from_data")
    /\ IF ~IsList(data) \/ ~HasMarker(data)
       THEN content_messages' = <<>> /\ messages' = <<>> /\ pc' = "extracted"
       ELSE /\ content_messages' = find_content_references(data, data, <<>>)
            /\ messages' = AttributeSenders(Deduplicate(content_messages', {}), data)
            /\ pc' = "scan"
    /\ i' = 0
    /\ seen_texts' = {}
    /\ scan_candidates' = <<>>
    /\ UNCHANGED <<data, now, ticks, user_info, timestamps, record, callNo, previous>>
    /\ UNCHANGED listing

\* lines 415, 520-603: extract_conversation_from_data up to the end of Phase 1
Phase1 ==
    /\ pc = "conversation"
    /\ calls' = Append(calls, "extract_conversation_from_data")
    /\ IF ~IsList(data) \/ ~HasMarker(data)
       THEN content_messages' = <<>> /\ messages' = <<>> /\ pc' = "extracted"
       ELSE /\ content_messages' = find_content_references(data, data, <<>>)
            /\ messages' = AttributeSenders(Deduplicate(content_messages', {}), data)
            /\ pc' = IF messages' = <<>> THEN "scan" ELSE "extracted"
    /\ i' = 0
    /\ seen_texts' = {}
    /\ scan_candidates' = <<>>
    /\ UNCHANGED <<data, now, ticks, user_info, timestamps, record, callNo, previous>>
    /\ UNCHANGED listing

\* lines 612-620: "HumanMessage" followed by an element
ScanHuman ==
    /\ pc = "scan"
    /\ i < Len(data.v)
    /\ StrEq(data.v[i + 1], <<"H", "u", "m", "a", "n", "M", "e", "s", "s", "a", "g", "e">>)
    /\ i + 1 < Len(data.v)
    /\ \E user_text \in {PyStr(data.v[i + 2])} :
           /\ scan_candidates' = IF is_real_conversation_message(Str(user_text))
                                 THEN Append(scan_candidates, user_text) ELSE scan_candidates
           /\ IF is_real_conversation_message(Str(user_text)) /\ user_text \notin seen_texts
              THEN /\ seen_texts' = seen_texts \cup {user_text}
                   /\ messages' = Append(messages, [sender |-> "user", text |-> user_text])
              ELSE UNCHANGED <<seen_texts, messages>>
    /\ i' = i + 2
    /\ UNCHANGED <<data, now, ticks, pc, user_info, content_messages, timestamps, record,
                   calls, callNo, previous>>
    /\ UNCHANGED listing

\* lines 621-629: "AIMessage" followed by an element
ScanAI ==
    /\ pc = "scan"
    /\ i < Len(data.v)
    /\ StrEq(data.v[i + 1], <<"A", "I", "M", "e", "s", "s", "a", "g", "e">>)
    /\ i + 1 < Len(data.v)
    /\ \E bot_text \in {PyStr(data.v[i + 2])} :
           /\ scan_candidates' = IF is_real_conversation_message(Str(bot_text))
                                 THEN Append(scan_candidates, bot_text) ELSE scan_candidates
           /\ IF is_real_conversation_message(Str(bot_text)) /\ bot_text \notin seen_texts
              THEN /\ seen_texts' = seen_texts \cup {bot_text}
                   /\ messages' = Append(messages, [sender |-> "bot", text |-> bot_text])
              ELSE UNCHANGED <<seen_texts, messages>>
    /\ i' = i + 2
    /\ UNCHANGED <<data, now, ticks, pc, user_info, content_messages, timestamps, record,
                   calls, callNo, previous>>
    /\ UNCHANGED listing

\* variant: a string of exactly 100 characters is still attributed to the user
ScanStringInclusive ==
    /\ pc = "scan"
    /\ i < Len(data.v)
    /\ IsStr(data.v[i + 1])
    /\ ~(/\ (StrEq(data.v[i + 1], <<"H", "u", "m", "a", "n", "M", "e", "s", "s", "a", "g", "e">>) \/ StrEq(data.v[i + 1], <<"A", "I", "M", "e", "s", "s", "a", "g", "e">>))
         /\ i + 1 < Len(data.v))
    /\ LET item == data.v[i + 1]
       IN  /\ scan_candidates' = IF is_real_conversation_message(item)
                                 THEN Append(scan_candidates, item.v) ELSE scan_candidates
           /\ IF is_real_conversation_message(item) /\ item.v \notin seen_texts
              THEN /\ seen_texts' = seen_texts \cup {item.v}
                   /\ messages' = Append(messages,
                          [sender |-> IF Len(item.v) <= 100 THEN "user" ELSE "bot",
                           text |-> item.v])
              ELSE UNCHANGED <<seen_texts, messages>>
    /\ i' = i + 1
    /\ UNCHANGED <<content_messages, data, now, ticks, pc, user_info, timestamps, record, calls,
                   callNo, previous>>
    /\ UNCHANGED listing

\* lines 630-638: any other string, and a marker in the last position
ScanString ==
    /\ pc = "scan"
    /\ i < Len(data.v)
    /\ IsStr(data.v[i + 1])
    /\ ~(/\ (StrEq(data.v[i + 1], <<"H", "u", "m", "a", "n", "M", "e", "s", "s", "a", "g", "e">>) \/ StrEq(data.v[i + 1], <<"A", "I", "M", "e", "s", "s", "a", "g", "e">>))
         /\ i + 1 < Len(data.v))
    /\ LET item == data.v[i + 1]
       IN  /\ scan_candidates' = IF is_real_conversation_message(item)
                                 THEN Append(scan_candidates, item.v) ELSE scan_candidates
           /\ IF is_real_conversation_message(item) /\ item.v \notin seen_texts
              THEN /\ seen_texts' = seen_texts \cup {item.v}
                   /\ messages' = Append(messages,
                          [sender |-> IF Len(item.v) < 100 THEN "user" ELSE "bot",
                           text |-> item.v])
              ELSE UNCHANGED <<seen_texts, messages>>
    /\ i' = i + 1
    /\ UNCHANGED <<content_messages, data, now, ticks, pc, user_info, timestamps, record, calls,
                   callNo, previous>>
    /\ UNCHANGED listing

\* variant: an element that is no string leaves the index where it is
ScanSkipStays ==
    /\ pc = "scan"
    /\ i < Len(data.v)
    /\ ~IsStr(data.v[i + 1])
    /\ UNCHANGED vars

\* lines 639-640: an element that is no string
ScanSkip ==
    /\ pc = "scan"
    /\ i < Len(data.v)
    /\ ~IsStr(data.v[i + 1])
    /\ i' = i + 1
    /\ UNCHANGED <<content_messages, scan_candidates, data, now, ticks, pc, user_info, messages, seen_texts, timestamps,
                   record, calls, callNo, previous>>
    /\ UNCHANGED listing

\* lines 607, 642: the loop ends and extract_conversation_from_data returns
ScanEnd ==
    /\ pc = "scan"
    /\ ~(i < Len(data.v))
    /\ pc' = "extracted"
    /\ UNCHANGED <<content_messages, scan_candidates, data, now, ticks, user_info, messages, i, seen_texts, timestamps,
                   record, calls, callNo, previous>>
    /\ UNCHANGED listing

\* variant: no early return, the empty list goes on to the timestamps
FallThroughNoConversation ==
    /\ pc = "extracted"
    /\ messages = <<>>
    /\ timestamps' = extract_timestamps_from_data(data, now).timestamps
    /\ calls' = Append(calls, "extract_timestamps_from_data")
    /\ pc' = "assemble"
    /\ UNCHANGED <<data, now, ticks, user_info, content_messages, messages, i, seen_texts,
                   scan_candidates, record, callNo, previous>>
    /\ UNCHANGED listing

\* lines 418-427
ReturnNoConversation ==
    /\ pc = "extracted"
    /\ messages = <<>>
    /\ record' = [id |-> chat_id, created |-> now, updated |-> now, messages |-> <<>>,
                  no_conversation |-> TRUE, user_info |-> user_info]
    /\ pc' = "done"
    /\ UNCHANGED <<content_messages, scan_candidates, data, now, ticks, user_info, messages, i, seen_texts, timestamps,
                   calls, callNo, previous>>
    /\ UNCHANGED listing

\* line 430: an exception of extract_timestamps_from_data leaves
\* extract_chat_messages
CallExtractTimestamps ==
    /\ pc = "extracted"
    /\ messages # <<>>
    /\ LET r == extract_timestamps_from_data(data, now)
       IN  IF r.raised # "none"
           THEN pc' = "raised" /\ UNCHANGED timestamps
           ELSE pc' = "assemble" /\ timestamps' = r.timestamps
    /\ calls' = Append(calls, "extract_timestamps_from_data")
    /\ UNCHANGED <<content_messages, scan_candidates, data, now, ticks, user_info, messages, i, seen_texts, record,
                   callNo, previous>>
    /\ UNCHANGED listing

\* lines 434-449: message i takes timestamp i, or now - (total - i) minutes
AssignTimestamps(conversation_messages, ts, clock) ==
    [n \in 1..Len(conversation_messages) |->
        [sender |-> conversation_messages[n].sender,
         text |-> conversation_messages[n].text,
         timestamp |-> IF n - 1 < Len(ts) THEN ts[n]
                       ELSE clock - (Len(conversation_messages) - (n - 1)) * MsPerMinute]]

\* variant: an insertion that puts x before the messages of equal timestamp
RECURSIVE InsertMessageUnstable(_, _)
InsertMessageUnstable(sorted, x) ==
    IF sorted = <<>> THEN <<x>>
    ELSE IF x.timestamp <= Head(sorted).timestamp THEN <<x>> \o sorted
    ELSE <<Head(sorted)>> \o InsertMessageUnstable(Tail(sorted), x)

\* line 452: list.sort(key=timestamp), which is stable
RECURSIVE InsertMessage(_, _)
InsertMessage(sorted, x) ==
    IF sorted = <<>> THEN <<x>>
    ELSE IF x.timestamp < Head(sorted).timestamp THEN <<x>> \o sorted
    ELSE <<Head(sorted)>> \o InsertMessage(Tail(sorted), x)

\* variant: the messages are left in extraction order
NoSort(ms) == ms

RECURSIVE SortMessages(_)
SortMessages(ms) ==
    IF ms = <<>> THEN <<>>
    ELSE InsertMessage(SortMessages(SubSeq(ms, 1, Len(ms) - 1)), ms[Len(ms)])

\* lines 431-464
Assemble ==
    /\ pc = "assemble"
    /\ LET sorted == SortMessages(AssignTimestamps(messages, timestamps, now))
       IN  record' = [id |-> chat_id,
                      created |-> IF sorted # <<>> THEN sorted[1].timestamp ELSE now,
                      updated |-> now,
                      messages |-> sorted,
                      no_conversation |-> FALSE,
                      user_info |-> user_info]
    /\ pc' = "done"
    /\ UNCHANGED <<content_messages, scan_candidates, data, now, ticks, user_info, messages, i, seen_texts, timestamps,
                   calls, callNo, previous>>
    /\ UNCHANGED listing

\* datetime.now() is read in extract_timestamps_from_data (line 511) and in
\* the assembler (lines 421-422, 442, 460); the clock advances between the
\* two reads and between two requests.
Tick ==
    /\ pc \in {"assemble", "done"}
    /\ ticks < MaxTicks
    /\ now' = now + TickMs
    /\ ticks' = ticks + 1
    /\ UNCHANGED <<content_messages, scan_candidates, data, pc, user_info, messages, i, seen_texts, timestamps, record,
                   calls, callNo, previous>>
    /\ UNCHANGED listing

\* lines 216, 337: a later request reconstructs the same log again
CallAgain ==
    /\ pc = "done"
    /\ callNo < MaxCalls
    /\ callNo' = callNo + 1
    /\ previous' = record.messages
    /\ pc' = "start"
    /\ user_info' = [phone_number |-> Null, user_name |-> Null]
    /\ content_messages' = <<>>
    /\ messages' = <<>>
    /\ scan_candidates' = <<>>
    /\ i' = 0
    /\ seen_texts' = {}
    /\ timestamps' = <<>>
    /\ record' = NoRecord
    /\ calls' = <<>>
    /\ UNCHANGED <<data, now, ticks>>
    /\ UNCHANGED listing

Next ==
    \/ CallExtractUserInfo
    \/ Phase1
    \/ ScanHuman
    \/ ScanAI
    \/ ScanString
    \/ ScanSkip
    \/ ScanEnd
    \/ ReturnNoConversation
    \/ CallExtractTimestamps
    \/ Assemble
    \/ Tick
    \/ CallAgain

Spec == Init /\ [][Next]_vars

\* lines 607-640: one iteration of the while loop, or its exit
ScanLoop == ScanHuman \/ ScanAI \/ ScanString \/ ScanSkip \/ ScanEnd

\* the logs whose root is a sequence of at most MaxLen of the elements
ScanInit ==
    /\ Init
    /\ IsList(data) /\ Len(data.v) <= MaxLen
    /\ \A n \in 1..Len(data.v) : \E k \in 1..Len(Elems) : data.v[n] = Elems[k]

\* lines 408-415, 520-642: extract_conversation_from_data, called by
\* extract_chat_messages
ScanNext == CallExtractUserInfo \/ Phase1 \/ ScanLoop

\* the loop is sequential code: an iteration that can run does run
ScanSpec == ScanInit /\ [][ScanNext]_vars /\ WF_vars(ScanLoop)

----------------------------------------------------------------------------
(* SenderClassifier: determine_sender over logs built around one content *)

\* the largest distance, in positions, between the content and a marker
MaxGap == 21

\* distances of a marker from the content; 0 stands for no such marker
Gaps == {0} \cup {g : g \in {1, 15, 16, 20, MaxGap}} \cup {0 - g : g \in {1, 15, 16, 20, MaxGap}}

\* distances for the contents that are classified by their text
NearGaps == {0, 1, 0 - 1, 16}

\* contents that are placed at every distance from the markers: the scores
\* give the first to the user and the second to the bot
PositionalContents == << <<"h", "o", "l", "a">>, <<"w", "w", "w", ".", "t", "i", "e", "n", "d", "a", ".", "c", "o", "m">> >>

\* contents that are classified by their text
SenderContents ==
    << <<"o", "k", " ", "g", "r", "a", "c", "i", "a", "s">>,
       <<"O", "K", " ", "G", "r", "a", "c", "i", "a", "s">>,
       <<"h", "o", "l", "a", " ", "1", "3", "5", "6">>,
       <<"c", "o", "t", "i", "z", "a", "m", "e", " ", "1", " ", "c", "i", "e", "n", "t", "o", " ", "d", "e", " ", "l", "l", "a", "v", "e", "s">>,
       <<"¿", "E", "n", " ", "q", "u", "é", " ", "p", "u", "e", "d", "o", " ", "a", "y", "u", "d", "a", "r", "t", "e", "?">>,
       <<"T", "e", " ", "r", "e", "c", "o", "m", "i", "e", "n", "d", "o", " ", "c", "o", "n", "t", "a", "c", "t", "a", "r", " ", "a", " ", "J", "u", "a", "n">>,
       <<"D", "e", " ", "n", "a", "d", "a", "!", " ", "S", "i", " ", "n", "e", "c", "e", "s", "i", "t", "a", "s", " ", "a", "l", "g", "o", " ", "a", "v", "i", "s", "a">>,
       <<"c", "o", "t", "i", "z", "a", " ", "l", "l", "a", "v", "e", "s">>,
       <<"c", "o", "t", "i", "z", "a", " ">> \o Repeated(<<"z">>, 93),
       Repeated(<<"z">>, 19),
       Repeated(<<"z">>, 20),
       Repeated(<<"z", "z", " ", "z">>, 49),
       Repeated(<<"z">>, 50),
       Repeated(<<"z">>, 149),
       Repeated(<<"z">>, 150),
       Repeated(<<"z">>, 151),
       Repeated(<<"z">>, 299),
       Repeated(<<"z">>, 300),
       Repeated(<<"z">>, 301),
       <<"s", "i">> \o Repeated(<<"z">>, 298),
       <<"q", "u", "i", "e", "r", "o", " ", "p", "a", "n">>,
       <<"E", "s", "t", "i", "m", "a", "d", "o", " ", "c", "l", "i", "e", "n", "t", "e", ".", " ", "G", "r", "a", "c", "i", "a", "s", ".">>,
       <<"¿", "c", "o", "m", "o", " ", "e", "s", "t", "a", "s", " ", "h", "o", "y", ",", " ", "t", "o", "d", "o", " ", "b", "i", "e", "n", " ", "p", "o", "r", " ", "a", "l", "l", "a", "?">>,
       <<"j", "a", "j", "a", " ", ":", ")">> >>

\* how the content occurs in the log: "plain" is a 'content' field that
\* refers to the root element holding the content, "echo" adds a later root
\* element with the same content, "padded" is a literal 'content' field
\* beside a root element holding the content between blanks, "absent" is a
\* literal 'content' field and no root element with the content
Layouts == {"plain", "echo", "padded", "absent"}

\* the root sequence: the content at 0-based index MaxGap, "HumanMessage" dh
\* places and "AIMessage" da places from it, null elsewhere, and the object
\* with the 'content' field at the end
SenderRoot(c, dh, da, layout) ==
    List([k \in 1..(2 * MaxGap + 1) |->
              IF k - 1 = MaxGap
              THEN (IF layout = "absent" THEN Null
                    ELSE IF layout = "padded" THEN Str(<<" ">> \o c \o <<" ">>)
                    ELSE Str(c))
              ELSE IF dh # 0 /\ k - 1 = MaxGap + dh THEN Str(<<"H", "u", "m", "a", "n", "M", "e", "s", "s", "a", "g", "e">>)
              ELSE IF da # 0 /\ k - 1 = MaxGap + da THEN Str(<<"A", "I", "M", "e", "s", "s", "a", "g", "e">>)
              ELSE Null]
         \o (IF layout = "echo" THEN << Str(c) >> ELSE <<>>)
         \o << Obj(<< KV(<<"c", "o", "n", "t", "e", "n", "t">>,
                         IF layout \in {"plain", "echo"} THEN Str(IntDigits(MaxGap)) ELSE Str(c)) >>) >>)

SenderInit ==
    /\ \/ \E n \in 1..Len(PositionalContents) : \E dh \in Gaps : \E da \in Gaps :
             \E layout \in Layouts :
                /\ dh = 0 \/ dh # da
                /\ data = SenderRoot(PositionalContents[n], dh, da, layout)
       \/ \E n \in 1..Len(SenderContents) : \E dh \in NearGaps : \E da \in NearGaps :
             \E layout \in {"plain", "absent"} :
                /\ dh = 0 \/ dh # da
                /\ data = SenderRoot(SenderContents[n], dh, da, layout)
    /\ now = FirstNow
    /\ ticks = 0
    /\ pc = "start"
    /\ user_info = [phone_number |-> Null, user_name |-> Null]
    /\ content_messages = <<>>
    /\ messages = <<>>
    /\ scan_candidates = <<>>
    /\ i = 0
    /\ seen_texts = {}
    /\ timestamps = <<>>
    /\ record = NoRecord
    /\ calls = <<>>
    /\ callNo = 1
    /\ previous = <<>>
    /\ NoListing

\* the calls of extract_chat_messages up to the attribution of the senders
SenderNext ==
    \/ CallExtractUserInfo
    \/ Phase1

SenderSpec == SenderInit /\ [][SenderNext]_vars

----------------------------------------------------------------------------
(* ChatListing: list_chats_internal on a call that misses the cache *)

\* the largest number of rows of execution_data
MaxExecutions == 3

\* the clock reads FirstNow at 01:56:40 of the day numbered 0; instants are
\* counted from 01:46:40 of that day
StartOfClock == 6400 * MsPerSecond
MsPerDay == 24 * MsPerHour

\* datetime.date(): the day an instant falls on
Day(t) == (t + StartOfClock) \div MsPerDay

\* the civil date of a day: day 0 is 2001-09-09
CivilOf(day) ==
    CHOOSE c \in [y : 2001..2002, m : 1..12, d : 1..31] :
        /\ c.d <= DaysInMonth(c.y, c.m)
        /\ DaysFromCivil(c.y, c.m, c.d) = DaysFromCivil(2001, 9, 9) + day

TwoDigits(n) == IF n < 10 THEN <<"0">> \o IntDigits(n) ELSE IntDigits(n)

\* date.strftime('%Y-%m-%d')
IsoDate(day) ==
    IntDigits(CivilOf(day).y) \o <<"-">> \o TwoDigits(CivilOf(day).m)
        \o <<"-">> \o TwoDigits(CivilOf(day).d)

\* the rows: logs of one participant on day 0 (synthesized and recovered
\* instants) and on day 1, of another participant, without conversation,
\* without phone number, and one on which extract_chat_messages raises
ListRoots ==
    << List(<< Str(<<"H", "u", "m", "a", "n", "M", "e", "s", "s", "a", "g", "e">>), Str(<<"h", "o", "l", "a">>), Obj(<< KV(<<"f", "r", "o", "m">>, Str(<<"1", "2", "3", "4", "5", "6", "7">>)) >>) >>),
       List(<< Str(<<"H", "u", "m", "a", "n", "M", "e", "s", "s", "a", "g", "e">>), Str(<<"h", "o", "l", "a">>), Str(<<"A", "I", "M", "e", "s", "s", "a", "g", "e">>), Str(<<"a", "d", "i", "o", "s", " ", "a", "m", "i", "g", "o">>),
               Obj(<< KV(<<"f", "r", "o", "m">>, Str(<<"1", "2", "3", "4", "5", "6", "7">>)), KV(<<"a", "t">>, Num(<<"1", "0", "0", "0", "0", "0", "0", "5", "7", "0">>)),
                       KV(<<"t", "i", "m", "e">>, Num(<<"1", "0", "0", "0", "0", "0", "0", "5", "4", "0">>)) >>) >>),
       List(<< Str(<<"H", "u", "m", "a", "n", "M", "e", "s", "s", "a", "g", "e">>), Str(<<"h", "o", "l", "a">>),
               Obj(<< KV(<<"f", "r", "o", "m">>, Str(<<"1", "2", "3", "4", "5", "6", "7">>)), KV(<<"a", "t">>, Num(<<"1", "0", "0", "0", "0", "9", "0", "0", "0", "0">>)) >>) >>),
       List(<< Str(<<"H", "u", "m", "a", "n", "M", "e", "s", "s", "a", "g", "e">>), Str(<<"h", "o", "l", "a">>), Obj(<< KV(<<"f", "r", "o", "m">>, Str(<<"7", "6", "5", "4", "3", "2", "1">>)) >>) >>),
       List(<< Obj(<< KV(<<"f", "r", "o", "m">>, Str(<<"1", "2", "3", "4", "5", "6", "7">>)) >>) >>),
       List(<< Str(<<"H", "u", "m", "a", "n", "M", "e", "s", "s", "a", "g", "e">>), Str(<<"h", "o", "l", "a">>), Str(<<"a", "d", "i", "o", "s">>) >>),
       List(<< Str(<<"H", "u", "m", "a", "n", "M", "e", "s", "s", "a", "g", "e">>), Str(<<"h", "o", "l", "a">>),
               Obj(<< KV(<<"f", "r", "o", "m">>, Str(<<"1", "2", "3", "4", "5", "6", "7">>)), KV(<<"t", "i", "m", "e">>, Num(<<"1", "0", "0", "0", "0", "0", "0", "0", "0", "0", "0", "0", "0", "0", "0", "0", "0", "0", "0", "0", "0", "0", "0">>)) >>) >>) >>

\* lines 177-178, 196-211: the day asked for, if any; without show_all and
\* without a date it is today
TargetDates == {{}, {0}, {1}}

ListInit ==
    /\ \E n \in 1..MaxExecutions : \E f \in [1..n -> 1..Len(ListRoots)] :
            executions = [k \in 1..n |-> ListRoots[f[k]]]
    /\ target_date \in TargetDates
    /\ position = 0
    /\ processed = <<>>
    /\ chats_by_phone = <<>>
    /\ all_chats = <<>>
    /\ chats = <<>>
    /\ data = List(<<>>)
    /\ now = FirstNow
    /\ ticks = 0
    /\ pc = "idle"
    /\ user_info = [phone_number |-> Null, user_name |-> Null]
    /\ content_messages = <<>>
    /\ messages = <<>>
    /\ scan_candidates = <<>>
    /\ i = 0
    /\ seen_texts = {}
    /\ timestamps = <<>>
    /\ record = NoRecord
    /\ calls = <<>>
    /\ callNo = 1
    /\ previous = <<>>

\* lines 213-217: the next row is handed to extract_chat_messages
TakeExecution ==
    /\ pc = "idle"
    /\ position < Len(executions)
    /\ data' = executions[position + 1]
    /\ pc' = "start"
    /\ user_info' = [phone_number |-> Null, user_name |-> Null]
    /\ content_messages' = <<>>
    /\ messages' = <<>>
    /\ scan_candidates' = <<>>
    /\ i' = 0
    /\ seen_texts' = {}
    /\ timestamps' = <<>>
    /\ record' = NoRecord
    /\ calls' = <<>>
    /\ UNCHANGED <<now, ticks, callNo, previous, listing>>

\* lines 256-258: an exception of extract_chat_messages skips the row
SkipRaised ==
    /\ pc = "raised"
    /\ position < Len(executions)
    /\ processed' = Append(processed, [id |-> position + 1, kind |-> "raised"])
    /\ position' = position + 1
    /\ pc' = "idle"
    /\ UNCHANGED <<data, now, ticks, user_info, content_messages, messages, i, seen_texts,
                   scan_candidates, timestamps, record, calls, callNo, previous,
                   executions, target_date, chats_by_phone, all_chats, chats>>

\* variant: no instants are synthesized when none is recovered
RecoveredOnly(d, clock) ==
    LET found == search_for_timestamps(d, [timestamps |-> <<>>, raised |-> "none"])
    IN  IF found.raised # "none" THEN found
        ELSE [timestamps |-> SortInstants(found.timestamps), raised |-> "none"]

\* line 219: the second call of extract_timestamps_from_data on the row
ListTimestamps(d, clock) == extract_timestamps_from_data(d, clock)

\* lines 221-225
ChatDate(ts, clock) == IF ts # <<>> THEN Day(ts[1]) ELSE Day(clock)

\* lines 217-233: what the loop body computes before it groups
Outcome(id, d, rec, ts, clock, target) ==
    [id |-> id,
     kind |-> "ok",
     timestamps |-> ts,
     chat_date |-> ChatDate(ts, clock),
     skipped |-> target # {} /\ ChatDate(ts, clock) \notin target,
     has_conversation |-> ~rec.no_conversation,
     phone_number |-> rec.user_info.phone_number,
     user_name |-> rec.user_info.user_name,
     message_count |-> Len(rec.messages),
     data_size |-> Len(PyStr(d))]

\* bool(x) of a phone number: None and the empty string are false
Truthy(x) == x # Null /\ x.v # <<>>

\* line 235
Included(o) == ~o.skipped /\ o.has_conversation /\ Truthy(o.phone_number)

\* lines 236-246; the fields date_str and preview, which only the page
\* shows, are left out
ChatSummary(o) ==
    [id |-> o.id,
     date |-> o.chat_date,
     phone_number |-> o.phone_number.v,
     user_name |-> o.user_name,
     message_count |-> o.message_count,
     has_conversation |-> TRUE,
     data_size |-> o.data_size,
     total_records |-> 0]

\* line 249
PhoneDateKey(o) == o.phone_number.v \o <<"_">> \o IsoDate(o.chat_date)

\* lines 251-254: the summary joins the group of its key, a new key last
AddToGroup(groups, key, summary) ==
    IF \E g \in 1..Len(groups) : groups[g].key = key
    THEN [g \in 1..Len(groups) |->
             IF groups[g].key = key
             THEN [groups[g] EXCEPT !.chats = Append(@, summary)]
             ELSE groups[g]]
    ELSE Append(groups, [key |-> key, chats |-> <<summary>>])

\* lines 218-258: the rest of the loop body, after extract_chat_messages
RecordSummary ==
    /\ pc = "done"
    /\ position < Len(executions)
    /\ processed' =
          Append(processed,
                 IF ListTimestamps(data, now).raised # "none"
                 THEN [id |-> position + 1, kind |-> "raised"]
                 ELSE Outcome(position + 1, data, record,
                              ListTimestamps(data, now).timestamps, now, target_date))
    /\ chats_by_phone' =
          IF processed'[Len(processed')].kind = "ok" /\ Included(processed'[Len(processed')])
          THEN AddToGroup(chats_by_phone, PhoneDateKey(processed'[Len(processed')]),
                          ChatSummary(processed'[Len(processed')]))
          ELSE chats_by_phone
    /\ position' = position + 1
    /\ pc' = "idle"
    /\ UNCHANGED <<data, now, ticks, user_info, content_messages, messages, i, seen_texts,
                   scan_candidates, timestamps, record, calls, callNo, previous,
                   executions, target_date, all_chats, chats>>

\* sum(chat['message_count'] for chat in phone_chats)
RECURSIVE TotalMessages(_)
TotalMessages(phone_chats) ==
    IF phone_chats = <<>> THEN 0
    ELSE phone_chats[1].message_count + TotalMessages(Tail(phone_chats))

\* variant: the first summary of the group
FirstOfGroup(phone_chats) == 1

\* line 263: max() returns the first of the summaries of maximal size
Largest(phone_chats) ==
    CHOOSE n \in 1..Len(phone_chats) :
        /\ \A m \in 1..Len(phone_chats) : phone_chats[m].data_size <= phone_chats[n].data_size
        /\ \A m \in 1..(n - 1) : phone_chats[m].data_size < phone_chats[n].data_size

\* lines 263-268
BestChat(phone_chats) ==
    [phone_chats[Largest(phone_chats)] EXCEPT
        !.message_count = TotalMessages(phone_chats),
        !.total_records = Len(phone_chats)]

\* lines 260-311: the selection in every group and the list for the page;
\* best_chat is the summary held by the group, which is updated with it
SelectBest ==
    /\ pc = "idle"
    /\ position = Len(executions)
    /\ all_chats' = [g \in 1..Len(chats_by_phone) |-> BestChat(chats_by_phone[g].chats)]
    /\ chats_by_phone' =
          [g \in 1..Len(chats_by_phone) |->
              [chats_by_phone[g] EXCEPT
                  !.chats[Largest(chats_by_phone[g].chats)] = all_chats'[g]]]
    /\ chats' = IF target_date = {} THEN all_chats'
                ELSE SelectSeq(all_chats', LAMBDA c : c.date \in target_date)
    /\ pc' = "listed"
    /\ UNCHANGED <<data, now, ticks, user_info, content_messages, messages, i, seen_texts,
                   scan_candidates, timestamps, record, calls, callNo, previous,
                   executions, position, target_date, processed>>

ListNext ==
    \/ TakeExecution
    \/ CallExtractUserInfo
    \/ Phase1
    \/ ScanLoop
    \/ ReturnNoConversation
    \/ CallExtractTimestamps
    \/ Assemble
    \/ RecordSummary
    \/ SkipRaised
    \/ SelectBest

\* the listing is followed at one reading of the clock: the seconds that pass
\* while it runs change no date
ListSpec == ListInit /\ [][ListNext]_vars

----------------------------------------------------------------------------
(* Properties *)

TextSet(ms) == {ms[n].text : n \in 1..Len(ms)}

\* the place of a text in the list extract_conversation_from_data returned
ExtractionIndex(text) == CHOOSE n \in 1..Len(messages) : messages[n].text = text

FirstIndex(xs, x) == MinOf({n \in 1..Len(xs) : xs[n] = x})

\* no element of the root sequence is one of the two markers
NoMarkerElement ==
    \A n \in 1..Len(data.v) :
        ~(IsStr(data.v[n]) /\ data.v[n].v \in {<<"H", "u", "m", "a", "n", "M", "e", "s", "s", "a", "g", "e">>, <<"A", "I", "M", "e", "s", "s", "a", "g", "e">>})

\* every object of the log, at any depth
RECURSIVE ObjectsIn(_)
ObjectsIn(x) ==
    IF IsObj(x) THEN {x} \cup UNION {ObjectsIn(x.v[n].v) : n \in 1..Len(x.v)}
    ELSE IF IsList(x) THEN UNION {ObjectsIn(x.v[n]) : n \in 1..Len(x.v)}
    ELSE {}

\* the objects that carry a str 'content'
ContentObjects == {o \in ObjectsIn(data) : HasKey(o, <<"c", "o", "n", "t", "e", "n", "t">>) /\ IsStr(ObjGet(o, <<"c", "o", "n", "t", "e", "n", "t">>))}

\* the texts that passed the filter, in the order the phase that produced the
\* messages met them
Candidates ==
    IF content_messages # <<>>
    THEN [n \in 1..Len(content_messages) |-> content_messages[n].content]
    ELSE scan_candidates

\* C1: extract_chat_messages returns a record for every log; no exception
\* of extract_user_info, extract_conversation_from_data or
\* extract_timestamps_from_data leaves it.
C1_NeverRaises == pc # "raised"

\* C2: the messages of a returned record are sorted non-decreasingly by
\* timestamp, and two messages with equal timestamps keep the order in which
\* extract_conversation_from_data produced them.
C2_SortedStable ==
    pc = "done" =>
        \A a, b \in 1..Len(record.messages) :
            a < b =>
                /\ record.messages[a].timestamp <= record.messages[b].timestamp
                /\ (record.messages[a].timestamp = record.messages[b].timestamp
                    => ExtractionIndex(record.messages[a].text)
                       < ExtractionIndex(record.messages[b].text))

\* a record with two messages of equal timestamp
C2_Witness ==
    /\ pc = "done"
    /\ \E a, b \in 1..Len(record.messages) :
          a < b /\ record.messages[a].timestamp = record.messages[b].timestamp

\* C3: a root sequence without a marker element yields no_conversation and an
\* empty message list, whatever else it holds.
C3_NoMarkerNoConversation ==
    pc = "done" /\ IsList(data) /\ NoMarkerElement
        => record.no_conversation /\ record.messages = <<>>

\* a returned record for a marker-free sequence that holds an object with an
\* acceptable 'content' and an acceptable bare string
C3_Witness ==
    /\ pc = "done" /\ IsList(data) /\ NoMarkerElement
    /\ \E o \in ContentObjects : is_real_conversation_message(ObjGet(o, <<"c", "o", "n", "t", "e", "n", "t">>))
    /\ \E n \in 1..Len(data.v) : is_real_conversation_message(data.v[n])

\* C4: no text of an extracted or returned message contains a technical
\* keyword.
C4_NoTechnicalKeyword ==
    \A text \in TextSet(messages) \cup TextSet(record.messages) :
        \A n \in 1..Len(technical_keywords) : ~Contains(technical_keywords[n], text)

\* a record with messages from a log that holds a string with a keyword other
\* than the markers
C4_Witness ==
    /\ pc = "done" /\ record.messages # <<>>
    /\ \/ \E n \in 1..Len(data.v) :
             IsStr(data.v[n]) /\ Contains(<<"p", "r", "o", "m", "p", "t", "_", "t", "o", "k", "e", "n", "s">>, data.v[n].v)
       \/ \E o \in ContentObjects : Contains(<<"p", "r", "o", "m", "p", "t", "_", "t", "o", "k", "e", "n", "s">>, ObjGet(o, <<"c", "o", "n", "t", "e", "n", "t">>).v)

\* C5: no two messages have the same text, every accepted text has a message,
\* and the messages stand in the order of the first occurrences of their texts.
C5_Deduplicated ==
    pc \in {"extracted", "assemble", "done"} =>
        /\ \A a, b \in 1..Len(messages) : a # b => messages[a].text # messages[b].text
        /\ \A a, b \in 1..Len(record.messages) :
              a # b => record.messages[a].text # record.messages[b].text
        /\ TextSet(messages) = {Candidates[n] : n \in 1..Len(Candidates)}
        /\ \A a, b \in 1..Len(messages) :
              a < b => FirstIndex(Candidates, messages[a].text)
                       < FirstIndex(Candidates, messages[b].text)

\* an extraction in which a text occurred twice, between two different texts
C5_Witness ==
    /\ pc = "done" /\ Len(record.messages) > 1
    /\ \E a, b \in 1..Len(Candidates) : a < b /\ Candidates[a] = Candidates[b]

\* C6: two calls on the same log return the same sequence of (sender, text).
C6_SamePairs ==
    pc = "done" /\ callNo > 1 =>
        /\ Len(record.messages) = Len(previous)
        /\ \A n \in 1..Len(previous) :
              /\ record.messages[n].sender = previous[n].sender
              /\ record.messages[n].text = previous[n].text

\* the objects whose 'content' is the decimal string of an index of the root
\* that holds an acceptable string
ValidReference(o) ==
    \E k \in 0..(Len(data.v) - 1) :
        /\ ObjGet(o, <<"c", "o", "n", "t", "e", "n", "t">>).v = IntDigits(k)
        /\ is_real_conversation_message(data.v[k + 1])

Referenced(o) == data.v[DigitsVal(ObjGet(o, <<"c", "o", "n", "t", "e", "n", "t">>).v) + 1].v

\* C7: in a sequence with a marker, a 'content' that is the decimal string of
\* a valid index of an acceptable string is extracted as the string at that
\* index, which is a message text of the record, and never as the index
\* literal itself.
C7_ReferenceResolved ==
    pc = "done" /\ IsList(data) /\ ~NoMarkerElement =>
        \A o \in ContentObjects :
            ValidReference(o) =>
                /\ Referenced(o) \in TextSet(record.messages)
                /\ \E n \in 1..Len(content_messages) :
                      /\ content_messages[n].ref = <<DigitsVal(ObjGet(o, <<"c", "o", "n", "t", "e", "n", "t">>).v)>>
                      /\ content_messages[n].content = Referenced(o)
                /\ ~\E n \in 1..Len(content_messages) :
                       /\ content_messages[n].ref = <<>>
                       /\ content_messages[n].content = ObjGet(o, <<"c", "o", "n", "t", "e", "n", "t">>).v

\* a record built from a valid reference next to a literal content
C7_Witness ==
    /\ pc = "done" /\ IsList(data) /\ ~NoMarkerElement
    /\ \E o \in ContentObjects :
          /\ ValidReference(o)
          /\ \E n \in 1..Len(content_messages) :
                content_messages[n].ref # <<>>
                /\ content_messages[n].content = Referenced(o)
    /\ \E n \in 1..Len(content_messages) : content_messages[n].ref = <<>>

\* an integer 'content' that is no valid reference: the index is negative,
\* beyond the root, or the element there is no string
InvalidReference(o) ==
    /\ IntParses(ObjGet(o, <<"c", "o", "n", "t", "e", "n", "t">>).v)
    /\ LET k == IntValue(ObjGet(o, <<"c", "o", "n", "t", "e", "n", "t">>).v)
       IN  k < 0 \/ k >= Len(data.v) \/ ~IsStr(data.v[k + 1])

\* C8: after Phase 1, an integer 'content' that is no valid reference was
\* taken literally (accepted iff it passes the filter) and was not resolved
\* to an element of the root.
C8_InvalidReferenceIsLiteral ==
    pc \in {"scan", "extracted"} /\ IsList(data) /\ ~NoMarkerElement =>
        \A o \in ContentObjects :
            InvalidReference(o) =>
                /\ is_real_conversation_message(ObjGet(o, <<"c", "o", "n", "t", "e", "n", "t">>))
                   <=> \E n \in 1..Len(content_messages) :
                          /\ content_messages[n].ref = <<>>
                          /\ content_messages[n].content = ObjGet(o, <<"c", "o", "n", "t", "e", "n", "t">>).v
                /\ ~\E n \in 1..Len(content_messages) :
                       content_messages[n].ref = <<IntValue(ObjGet(o, <<"c", "o", "n", "t", "e", "n", "t">>).v)>>

\* C9: a returned record has no_conversation exactly when it has no messages,
\* and then extract_timestamps_from_data was not called.
C9_NoConversationIffEmpty ==
    pc = "done" =>
        /\ record.no_conversation <=> record.messages = <<>>
        /\ record.no_conversation
           => \A n \in 1..Len(calls) : calls[n] # "extract_timestamps_from_data"

\* a record without conversation for a sequence with a marker
C9_Witness ==
    /\ pc = "done" /\ record.no_conversation
    /\ IsList(data) /\ ~NoMarkerElement

\* C10: created is the timestamp of the first message of the record, the
\* least timestamp of its messages.
C10_CreatedIsMinimum ==
    pc = "done" /\ record.messages # <<>> =>
        /\ record.created = record.messages[1].timestamp
        /\ \A n \in 1..Len(record.messages) :
              record.created <= record.messages[n].timestamp

\* a record whose first message is not the first extracted one
C10_Witness ==
    /\ pc = "done" /\ Len(record.messages) > 1
    /\ record.messages[1].text # messages[1].text


\* C11: the phone_number that extract_user_info returned is None or a string
\* of 7 to 15 decimal digits.
C11_PhoneDecimalDigits ==
    pc # "start" =>
        \/ user_info.phone_number = Null
        \/ /\ IsStr(user_info.phone_number)
           /\ Len(user_info.phone_number.v) >= 7
           /\ Len(user_info.phone_number.v) <= 15
           /\ \A n \in 1..Len(user_info.phone_number.v) :
                 user_info.phone_number.v[n]
                     \in {"0", "1", "2", "3", "4", "5", "6", "7", "8", "9"}

\* the instants that the traversal of the log recovers, in traversal order
Recovered == search_for_timestamps(data, [timestamps |-> <<>>, raised |-> "none"]).timestamps

\* C12: when the log holds no recoverable instant, the call of
\* extract_timestamps_from_data returns exactly 10 instants, the first one
\* hour before the current time, each next one 2 minutes later.
C12_SyntheticTimestamps ==
    [][pc = "extracted" /\ pc' = "assemble" /\ Recovered = <<>> =>
          /\ Len(timestamps') = 10
          /\ timestamps'[1] = now - 60 * 60 * 1000
          /\ \A n \in 1..9 : timestamps'[n + 1] = timestamps'[n] + 2 * 60 * 1000]_vars

\* extract_timestamps_from_data has returned for a log without instants, at
\* the later clock value
C12_Witness ==
    pc = "assemble" /\ Recovered = <<>> /\ timestamps # <<>> /\ callNo > 1 /\ now > FirstNow

\* C13: for a root that is an object, every literal (non-integer) 'content'
\* string that passes the filter, at any depth, is the text of an extracted
\* message.
C13_ObjectRootPhase1 ==
    pc = "extracted" /\ IsObj(data) =>
        \A o \in ContentObjects :
            /\ ~IntParses(ObjGet(o, <<"c", "o", "n", "t", "e", "n", "t">>).v)
            /\ is_real_conversation_message(ObjGet(o, <<"c", "o", "n", "t", "e", "n", "t">>))
            => ObjGet(o, <<"c", "o", "n", "t", "e", "n", "t">>).v \in TextSet(messages)

\* the elements of xs without those that occurred before, in order
FirstOccurrences(xs) ==
    LET keep == {n \in 1..Len(xs) : \A m \in 1..(n - 1) : xs[m] # xs[n]}
    IN  [k \in 1..Cardinality(keep) |->
            xs[CHOOSE n \in keep : Cardinality({m \in keep : m <= n}) = k]]

\* C14: when Phase 1 accepted a message, the scan of Phase 2 does not run, and
\* the texts of the extracted messages are exactly the Phase-1 contents
\* without repetitions, in order.
C14_Phase2OnlyIfPhase1Empty ==
    content_messages # <<>> =>
        /\ pc # "scan"
        /\ scan_candidates = <<>>
        /\ [n \in 1..Len(messages) |-> messages[n].text]
               = FirstOccurrences([n \in 1..Len(content_messages) |-> content_messages[n].content])

\* a record from Phase 1 for a root with a marker pair and a bare string that
\* pass the filter and are no message
C14_Witness ==
    /\ pc = "done" /\ content_messages # <<>>
    /\ \E n \in 1..Len(data.v) :
          /\ is_real_conversation_message(data.v[n])
          /\ data.v[n].v \notin TextSet(record.messages)
          /\ n > 1 /\ StrEq(data.v[n - 1], <<"H", "u", "m", "a", "n", "M", "e", "s", "s", "a", "g", "e">>)
    /\ \E n \in 1..Len(data.v) :
          /\ is_real_conversation_message(data.v[n])
          /\ data.v[n].v \notin TextSet(record.messages)
          /\ n > 1 /\ ~StrEq(data.v[n - 1], <<"H", "u", "m", "a", "n", "M", "e", "s", "s", "a", "g", "e">>) /\ ~StrEq(data.v[n - 1], <<"A", "I", "M", "e", "s", "s", "a", "g", "e">>)

\* the step appends text with this sender when text passes the filter and
\* was not emitted before, and appends nothing otherwise
Emits(sender, text) ==
    messages' = IF is_real_conversation_message(Str(text)) /\ text \notin TextSet(messages)
                THEN Append(messages, [sender |-> sender, text |-> text])
                ELSE messages

IsMarkerPair(marker) ==
    /\ StrEq(data.v[i + 1], marker)
    /\ i + 1 < Len(data.v)

\* C15: every step of the Phase-2 scan at index i (0-based) does this: a
\* "HumanMessage" with a following element takes that element as user text
\* and moves to i + 2; an "AIMessage" with a following element takes it as
\* bot text and moves to i + 2; any other string is an unattributed text,
\* user when shorter than 100 characters and bot otherwise, and the scan
\* moves to i + 1; a text is emitted only when it passes the filter and was
\* not emitted before.
C15_Phase2Scan ==
    [][pc = "scan" /\ i < Len(data.v) =>
          /\ IsMarkerPair(<<"H", "u", "m", "a", "n", "M", "e", "s", "s", "a", "g", "e">>) =>
                 i' = i + 2 /\ Emits("user", PyStr(data.v[i + 2]))
          /\ IsMarkerPair(<<"A", "I", "M", "e", "s", "s", "a", "g", "e">>) =>
                 i' = i + 2 /\ Emits("bot", PyStr(data.v[i + 2]))
          /\ /\ IsStr(data.v[i + 1])
             /\ ~IsMarkerPair(<<"H", "u", "m", "a", "n", "M", "e", "s", "s", "a", "g", "e">>)
             /\ ~IsMarkerPair(<<"A", "I", "M", "e", "s", "s", "a", "g", "e">>)
             => /\ i' = i + 1
                /\ Emits(IF Len(data.v[i + 1].v) < 100 THEN "user" ELSE "bot", data.v[i + 1].v)]_vars

\* the scan has emitted a marked text, an unattributed text of 100
\* characters as bot and one of 99 characters as user
C15_Witness ==
    /\ pc = "scan" /\ i = Len(data.v) /\ Len(data.v) > 2
    /\ StrEq(data.v[1], <<"H", "u", "m", "a", "n", "M", "e", "s", "s", "a", "g", "e">>) /\ IsStr(data.v[2])
    /\ \E n \in 1..Len(messages) : messages[n] = [sender |-> "user", text |-> data.v[2].v]
    /\ \E n \in 1..Len(messages) : Len(messages[n].text) = 100 /\ messages[n].sender = "bot"
    /\ \E n \in 1..Len(messages) : Len(messages[n].text) = 99 /\ messages[n].sender = "user"

\* the instants the assembler has at hand: the recovered ones, or the
\* synthesized ones when none was recovered
Available == IF Recovered = <<>> THEN timestamps ELSE Recovered

\* the k-th smallest element (1-based) of a sequence, repetitions counted
NthSmallest(xs, k) ==
    CHOOSE v \in {xs[n] : n \in 1..Len(xs)} :
        /\ Cardinality({n \in 1..Len(xs) : xs[n] < v}) < k
        /\ k <= Cardinality({n \in 1..Len(xs) : xs[n] <= v})

\* C16: in an assembled record, the extracted message of 0-based index i
\* carries the i-th smallest instant when i is below the number of instants
\* and otherwise the clock minus (number of messages - i) minutes; when
\* there are at least as many instants as messages, the messages of the
\* record carry the smallest instants in ascending order, whatever the
\* order of the instants in the log.
C16_PositionalTimestamps ==
    pc = "done" /\ ~record.no_conversation =>
        /\ \A n \in 1..Len(messages) :
              \E m \in 1..Len(record.messages) :
                  /\ record.messages[m].text = messages[n].text
                  /\ record.messages[m].sender = messages[n].sender
                  /\ record.messages[m].timestamp =
                         IF n - 1 < Len(Available)
                         THEN NthSmallest(Available, n)
                         ELSE record.updated - (Len(messages) - (n - 1)) * 60 * 1000
        /\ Len(Available) >= Len(messages) =>
              /\ Len(record.messages) = Len(messages)
              /\ \A n \in 1..Len(messages) :
                    /\ record.messages[n].text = messages[n].text
                    /\ record.messages[n].timestamp = NthSmallest(Available, n)

\* a record assembled from a log whose instants occur in descending order
C16_Witness ==
    /\ pc = "done" /\ ~record.no_conversation
    /\ Len(messages) >= 2 /\ Len(Recovered) >= 2
    /\ Recovered[1] > Recovered[2]

\* the rules on the content itself, in the order of the cascade
KnownUserUtterance(c) ==
    Lower(Strip(c)) \in {<<"h", "o", "l", "a", " ", "1", "3", "5", "6">>, <<"c", "o", "t", "i", "z", "a", "m", "e", " ", "1", " ", "c", "i", "e", "n", "t", "o", " ", "d", "e", " ", "l", "l", "a", "v", "e", "s">>, <<"o", "k", " ", "g", "r", "a", "c", "i", "a", "s">>}

KnownBotPhrase(c) ==
    \E phrase \in {<<"¿", "e", "n", " ", "q", "u", "é", " ", "p", "u", "e", "d", "o", " ", "a", "y", "u", "d", "a", "r", "t", "e">>, <<"t", "e", " ", "r", "e", "c", "o", "m", "i", "e", "n", "d", "o", " ", "c", "o", "n", "t", "a", "c", "t", "a", "r">>,
                    <<"d", "e", " ", "n", "a", "d", "a", "!", " ", "s", "i", " ", "n", "e", "c", "e", "s", "i", "t", "a", "s">>} :
        Contains(phrase, Lower(Strip(c)))

ShortQuoteRequest(c) == Contains(<<"c", "o", "t", "i", "z", "a">>, Lower(Strip(c))) /\ Len(c) < 100

ContentRule(c) == KnownUserUtterance(c) \/ KnownBotPhrase(c) \/ ShortQuoteRequest(c)

\* C17: every message of Phase 1 whose trimmed lower-cased content is a
\* known user utterance is attributed to the user; otherwise one that
\* contains a known bot phrase is attributed to the bot; otherwise one that
\* contains "cotiza" and is shorter than 100 characters is attributed to the
\* user; the markers around the content and the scores play no part.
C17_ContentRulesFirst ==
    content_messages # <<>> =>
        \A n \in 1..Len(messages) :
            /\ KnownUserUtterance(messages[n].text) => messages[n].sender = "user"
            /\ ~KnownUserUtterance(messages[n].text) /\ KnownBotPhrase(messages[n].text)
                   => messages[n].sender = "bot"
            /\ /\ ~KnownUserUtterance(messages[n].text)
               /\ ~KnownBotPhrase(messages[n].text)
               /\ ShortQuoteRequest(messages[n].text)
               => messages[n].sender = "user"

\* 0-based places of the root elements that equal the content once trimmed
PlacesOf(trimmed) ==
    {k \in 0..(Len(data.v) - 1) : IsStr(data.v[k + 1]) /\ Strip(data.v[k + 1].v) = trimmed}

Places(c) == PlacesOf(Strip(c))

\* distances from place p to the marker, over the root elements at most 20
\* places away
DistancesFrom(p, marker) ==
    {Abs(k - p) : k \in {j \in 0..(Len(data.v) - 1) :
                            Abs(j - p) <= 20 /\ StrEq(data.v[j + 1], marker)}}

\* distances from the first place of the content to the marker
MarkerDistances(c, marker) == DistancesFrom(MinOf(Places(c)), marker)

\* the nearest of the distances in A is at most 15 and strictly smaller
\* than every distance in B
Closer(A, B) == A # {} /\ MinOf(A) <= 15 /\ \A d \in B : MinOf(A) < d

HumanCloser(c) == Closer(MarkerDistances(c, <<"H", "u", "m", "a", "n", "M", "e", "s", "s", "a", "g", "e">>), MarkerDistances(c, <<"A", "I", "M", "e", "s", "s", "a", "g", "e">>))
AICloser(c) == Closer(MarkerDistances(c, <<"A", "I", "M", "e", "s", "s", "a", "g", "e">>), MarkerDistances(c, <<"H", "u", "m", "a", "n", "M", "e", "s", "s", "a", "g", "e">>))

\* a known user utterance with an "AIMessage" beside it, attributed to the
\* user
C17_Witness ==
    /\ pc = "extracted" /\ content_messages # <<>>
    /\ KnownUserUtterance(messages[1].text)
    /\ Places(messages[1].text) # {}
    /\ 1 \in MarkerDistances(messages[1].text, <<"A", "I", "M", "e", "s", "s", "a", "g", "e">>)
    /\ MarkerDistances(messages[1].text, <<"H", "u", "m", "a", "n", "M", "e", "s", "s", "a", "g", "e">>) = {}
    /\ messages[1].sender = "user"

\* C18: for a message of Phase 1 on which no content rule fires and whose
\* trimmed content equals a trimmed root element, the position is the first
\* such element; the sender is the user when the nearest "HumanMessage"
\* within 20 places is strictly nearer than the nearest "AIMessage" and at
\* most 15 places away, the bot in the mirrored case, and otherwise (equal
\* distances, distances above 15, no marker) the sender the scores give.
C18_PositionalRule ==
    content_messages # <<>> =>
        \A n \in 1..Len(messages) :
            ~ContentRule(messages[n].text) /\ Places(messages[n].text) # {} =>
                /\ HumanCloser(messages[n].text) => messages[n].sender = "user"
                /\ AICloser(messages[n].text) => messages[n].sender = "bot"
                /\ ~HumanCloser(messages[n].text) /\ ~AICloser(messages[n].text)
                       => messages[n].sender = ScoredSender(messages[n].text)

\* a content that occurs twice in the root and that the scores give to the
\* user, attributed to the bot by an "AIMessage" 15 places from its first
\* occurrence, with a "HumanMessage" farther away
C18_Witness ==
    /\ pc = "extracted" /\ content_messages # <<>>
    /\ ~ContentRule(messages[1].text)
    /\ Cardinality(Places(messages[1].text)) = 2
    /\ MinOf(MarkerDistances(messages[1].text, <<"A", "I", "M", "e", "s", "s", "a", "g", "e">>) \cup {16}) = 15
    /\ MarkerDistances(messages[1].text, <<"H", "u", "m", "a", "n", "M", "e", "s", "s", "a", "g", "e">>) # {}
    /\ ScoredSender(messages[1].text) = "user"
    /\ messages[1].sender = "bot"

\* no rule of the cascade decides: no content rule fires, and the content
\* has no place in the root or neither marker is closer
ScoresDecide(c) ==
    /\ ~ContentRule(c)
    /\ Places(c) = {} \/ (~HumanCloser(c) /\ ~AICloser(c))

\* the length bands as stated
StatedUserBand(length) == IF length < 20 THEN 4 ELSE IF length <= 49 THEN 2 ELSE 0
StatedBotBand(length) ==
    IF 150 <= length /\ length <= 299 THEN 3 ELSE IF length >= 300 THEN 5 ELSE 0

\* C19: for every message of Phase 1, the length of the content adds 4 to
\* user_score below 20, 2 to user_score from 20 to 49, 3 to bot_score from
\* 150 to 299, 5 to bot_score from 300 on and nothing from 50 to 149; so
\* when the scores decide, the sender is the bot exactly when the other bot
\* signals plus the stated bot band exceed the other user signals plus the
\* stated user band.
C19_LengthBands ==
    content_messages # <<>> =>
        \A n \in 1..Len(messages) :
            /\ LengthUserScore(Len(messages[n].text)) = StatedUserBand(Len(messages[n].text))
            /\ LengthBotScore(Len(messages[n].text)) = StatedBotBand(Len(messages[n].text))
            /\ ScoresDecide(messages[n].text) =>
                  (messages[n].sender = "bot" <=>
                      OtherBotScore(messages[n].text, Lower(messages[n].text), Len(messages[n].text))
                          + StatedBotBand(Len(messages[n].text))
                      > OtherUserScore(messages[n].text, Lower(messages[n].text), Len(messages[n].text))
                          + StatedUserBand(Len(messages[n].text)))

\* C20: for every message of Phase 1 on which no rule of the cascade fires,
\* the sender is the bot exactly when bot_score is strictly greater than
\* user_score; equal scores, zero included, give the user.
C20_BotIffStrictlyGreater ==
    content_messages # <<>> =>
        \A n \in 1..Len(messages) :
            ScoresDecide(messages[n].text) =>
                (messages[n].sender = "bot"
                    <=> bot_score(messages[n].text) > user_score(messages[n].text))

\* a content with equal scores above zero, attributed to the user
C20_Witness ==
    /\ pc = "extracted" /\ content_messages # <<>>
    /\ ScoresDecide(messages[1].text)
    /\ bot_score(messages[1].text) = user_score(messages[1].text)
    /\ bot_score(messages[1].text) > 0
    /\ messages[1].sender = "user"

\* the phone numbers the traversal meets, in traversal order; field tells a
\* value under a key containing 'from' from a bare string
RECURSIVE PhoneMatches(_)
RECURSIVE PhoneMatchesFrom(_, _)
PhoneMatches(x) ==
    IF IsObj(x) \/ IsList(x) THEN PhoneMatchesFrom(x, 1)
    ELSE IF IsStr(x) /\ is_valid_phone_number(x) THEN << [field |-> FALSE, value |-> x] >>
    ELSE <<>>

PhoneMatchesFrom(x, n) ==
    IF n > Len(x.v) THEN <<>>
    ELSE IF IsList(x) THEN PhoneMatches(x.v[n]) \o PhoneMatchesFrom(x, n + 1)
    ELSE (IF /\ Contains(<<"f", "r", "o", "m">>, Lower(x.v[n].k))
             /\ IsStr(x.v[n].v) /\ is_valid_phone_number(x.v[n].v)
          THEN << [field |-> TRUE, value |-> x.v[n].v] >> ELSE <<>>)
         \o PhoneMatches(x.v[n].v) \o PhoneMatchesFrom(x, n + 1)

\* the phone number recorded after the matches ms, phone being recorded
\* before them: a field match is always recorded, a bare string only when
\* nothing is recorded yet
RECURSIVE Recorded(_, _)
Recorded(ms, phone) ==
    IF ms = <<>> THEN phone
    ELSE Recorded(Tail(ms), IF Head(ms).field \/ phone = Null THEN Head(ms).value ELSE phone)

\* C21: the phone number extract_user_info returns is the one left by this
\* rule applied along the traversal: every field match overwrites the
\* recorded number, a bare-string match is recorded only when none is
\* recorded yet.
C21_PhonePrecedence ==
    pc \notin {"start", "raised"} => user_info.phone_number = Recorded(PhoneMatches(data), Null)

\* a log with a bare string first, two field matches after it and a bare
\* string last; the second field match is returned
C21_Witness ==
    /\ pc = "conversation"
    /\ \E a, b, c, d \in 1..Len(PhoneMatches(data)) :
          /\ a < b /\ b < c /\ c < d
          /\ ~PhoneMatches(data)[a].field /\ ~PhoneMatches(data)[d].field
          /\ PhoneMatches(data)[b].field /\ PhoneMatches(data)[c].field
          /\ Cardinality({PhoneMatches(data)[n].value : n \in {a, b, c, d}}) = 4
          /\ \A n \in (c + 1)..Len(PhoneMatches(data)) : ~PhoneMatches(data)[n].field
          /\ user_info.phone_number = PhoneMatches(data)[c].value

\* v is a reference into the root sequence: an integer that is an index of
\* the root whose element is a string
ValidNameReference(v) ==
    /\ IntParses(v) /\ IsList(data)
    /\ 0 <= IntValue(v) /\ IntValue(v) < Len(data.v)
    /\ IsStr(data.v[IntValue(v) + 1])

LooksLikeName(s) == Len(s) > 3 /\ ~IsDigit(s)

\* the names accepted for the value v of one key containing 'name'
StatedName(v) ==
    IF ValidNameReference(v) /\ LooksLikeName(data.v[IntValue(v) + 1].v)
    THEN << data.v[IntValue(v) + 1] >>
    ELSE IF LooksLikeName(v) THEN << Str(v) >>
    ELSE <<>>

\* the accepted names in traversal order
RECURSIVE StatedNames(_)
RECURSIVE StatedNamesFrom(_, _)
StatedNames(x) == IF IsObj(x) \/ IsList(x) THEN StatedNamesFrom(x, 1) ELSE <<>>

StatedNamesFrom(x, n) ==
    IF n > Len(x.v) THEN <<>>
    ELSE IF IsList(x) THEN StatedNames(x.v[n]) \o StatedNamesFrom(x, n + 1)
    ELSE (IF Contains(<<"n", "a", "m", "e">>, Lower(x.v[n].k)) /\ IsStr(x.v[n].v)
          THEN StatedName(x.v[n].v.v) ELSE <<>>)
         \o StatedNames(x.v[n].v) \o StatedNamesFrom(x, n + 1)

\* C22: the user_name extract_user_info returns is the last accepted name in
\* traversal order, where the string value v of a key containing 'name' is
\* accepted as root[v] when v is a valid reference and root[v] is longer
\* than 3 characters and not purely numeric, and in every other case as v
\* itself when v is longer than 3 characters and not purely numeric.
C22_NameByReference ==
    pc \notin {"start", "raised"} =>
        user_info.user_name =
            IF StatedNames(data) = <<>> THEN Null
            ELSE StatedNames(data)[Len(StatedNames(data))]

\* the stated reasons to reject a value
StatedNoise(x) ==
    \/ ~IsStr(x)
    \/ Len(Strip(x.v)) < 3
    \/ \E n \in 1..Len(technical_keywords) : Contains(technical_keywords[n], x.v)
    \/ StartsWith(x.v, <<"{">>) /\ EndsWith(x.v, <<"}">>)
    \/ /\ StartsWith(x.v, <<"h", "t", "t", "p">>)
       /\ Contains(<<"a", "p", "i">>, Lower(x.v)) \/ Contains(<<"w", "e", "b", "h", "o", "o", "k">>, Lower(x.v))
    \/ /\ Len(x.v) > 1000
       /\ \E n \in 1..Len(prompt_indicators) : Contains(prompt_indicators[n], x.v)
    \/ /\ Len(x.v) < 50
       /\ IsDigit(x.v) \/ (IsAlnum(x.v) /\ Len(x.v) > 20)

\* C23: is_real_conversation_message is False exactly on the values with a
\* stated reason to reject them: for every element of a root sequence that
\* arrives, the function agrees with the stated reasons, and a step of the Phase-2 scan
\* on an unattributed string not emitted before emits it exactly when no
\* stated reason holds.
C23_NoiseFilter ==
    /\ [](pc = "start" /\ IsList(data) =>
             \A n \in 1..Len(data.v) :
                 is_real_conversation_message(data.v[n]) <=> ~StatedNoise(data.v[n]))
    /\ [][/\ pc = "scan" /\ i < Len(data.v)
           /\ IsStr(data.v[i + 1])
           /\ ~IsMarkerPair(<<"H", "u", "m", "a", "n", "M", "e", "s", "s", "a", "g", "e">>) /\ ~IsMarkerPair(<<"A", "I", "M", "e", "s", "s", "a", "g", "e">>)
           /\ data.v[i + 1].v \notin TextSet(messages)
           => (messages' # messages <=> ~StatedNoise(data.v[i + 1]))]_vars

\* the scan is over a root that holds a string of 1000 characters with a
\* system-prompt indicator, emitted, one of more than 1000 characters with an
\* indicator and an alphanumeric one of 21 to 49 characters, both rejected
C23_Witness ==
    /\ pc = "scan" /\ i = Len(data.v)
    /\ \E n \in 1..Len(messages) :
          /\ Len(messages[n].text) = 1000
          /\ AnyIn(prompt_indicators, messages[n].text)
    /\ \E n \in 1..Len(data.v) :
          /\ IsStr(data.v[n]) /\ Len(data.v[n].v) > 1000
          /\ AnyIn(prompt_indicators, data.v[n].v)
          /\ data.v[n].v \notin TextSet(messages)
    /\ \E n \in 1..Len(data.v) :
          /\ IsStr(data.v[n]) /\ Len(data.v[n].v) > 20 /\ Len(data.v[n].v) < 50
          /\ IsAlnum(data.v[n].v)
          /\ data.v[n].v \notin TextSet(messages)

TimeLikeKey(key) == \E n \in 1..Len(time_keys) : Contains(time_keys[n], Lower(key))

\* the values under time-like keys, in traversal order
RECURSIVE TimeValues(_)
RECURSIVE TimeValuesFrom(_, _)
TimeValues(x) == IF IsObj(x) \/ IsList(x) THEN TimeValuesFrom(x, 1) ELSE <<>>

TimeValuesFrom(x, n) ==
    IF n > Len(x.v) THEN <<>>
    ELSE IF IsList(x) THEN TimeValues(x.v[n]) \o TimeValuesFrom(x, n + 1)
    ELSE (IF TimeLikeKey(x.v[n].k) THEN << x.v[n].v >> ELSE <<>>)
         \o TimeValues(x.v[n].v) \o TimeValuesFrom(x, n + 1)

\* the numbers above 10^9 among them
InterpretedNumbers ==
    SelectSeq(TimeValues(data), LAMBDA x : IsNum(x) /\ DigitsLess(<<"1", "0", "0", "0", "0", "0", "0", "0", "0", "0">>, x.v))

\* the instant a number stands for: milliseconds above 10^12, else seconds
StatedInstant(d) ==
    IF DigitsLess(<<"1", "0", "0", "0", "0", "0", "0", "0", "0", "0", "0", "0", "0">>, d)
    THEN (DigitsVal(SubSeq(d, 1, Len(d) - 9)) - 1000) * 1000000000
             + DigitsVal(SubSeq(d, Len(d) - 8, Len(d)))
    ELSE (DigitsVal(d) - 1000000000) * 1000

\* C24: for a log whose time-like keys hold no string, the instants that
\* extract_timestamps_from_data recovers are one per number above 10^9 under
\* a time-like key, read as milliseconds when above 10^12 and as seconds
\* otherwise; the smaller numbers give none.
C24_NumberInstants ==
    /\ pc = "assemble"
    /\ \A n \in 1..Len(TimeValues(data)) : ~IsStr(TimeValues(data)[n])
    /\ InterpretedNumbers # <<>>
    => /\ Len(timestamps) = Len(InterpretedNumbers)
       /\ \A n \in 1..Len(InterpretedNumbers) :
             \E m \in 1..Len(timestamps) :
                 timestamps[m] = StatedInstant(InterpretedNumbers[n].v)

\* C26: the messages of the assembled record are, in the same order, the
\* messages that extract_conversation_from_data produced: assigning the
\* timestamps and sorting by them moves no message.
C26_OrderKept ==
    pc = "done" /\ ~record.no_conversation =>
        /\ Len(record.messages) = Len(messages)
        /\ \A n \in 1..Len(messages) :
              /\ record.messages[n].sender = messages[n].sender
              /\ record.messages[n].text = messages[n].text

\* text stands in the root, and only immediately after marker
OnlyAfter(marker, text) ==
    /\ \E m \in 1..Len(data.v) : PyStr(data.v[m]) = text
    /\ \A m \in 1..Len(data.v) :
          PyStr(data.v[m]) = text => m > 1 /\ StrEq(data.v[m - 1], marker)

\* C27: in the output of the Phase-2 scan a message whose text stands in the
\* root immediately after "AIMessage" has sender bot, and one whose text
\* stands immediately after "HumanMessage" has sender user; this is stated
\* for the texts that stand nowhere else in the root.
C27_SenderFollowsMarker ==
    pc = "scan" =>
        \A n \in 1..Len(messages) :
            /\ OnlyAfter(<<"A", "I", "M", "e", "s", "s", "a", "g", "e">>, messages[n].text) => messages[n].sender = "bot"
            /\ OnlyAfter(<<"H", "u", "m", "a", "n", "M", "e", "s", "s", "a", "g", "e">>, messages[n].text) => messages[n].sender = "user"

\* the strings that the log holds as elements of its root
RootStrings == IF IsList(data) THEN {data.v[n].v : n \in {m \in 1..Len(data.v) : IsStr(data.v[m])}} ELSE {}

\* the strings that the log holds as value of a 'content' field
ContentStrings == {ObjGet(o, <<"c", "o", "n", "t", "e", "n", "t">>).v : o \in ContentObjects}

\* C28: every text in the output of extract_conversation_from_data is a
\* string of the log, a string element of the root or the string value of a
\* 'content' field; none is made from a value that is no string.
C28_TextsFromLog ==
    pc = "extracted" =>
        \A n \in 1..Len(messages) : messages[n].text \in RootStrings \cup ContentStrings


\* C30: the Phase-2 scan terminates: every iteration moves the index up by 1
\* or by 2 and never past the length of the root, so that no position is
\* scanned twice; when the index has reached the length the loop is left;
\* and a scan that has begun always comes to its end, also when a marker is
\* the last element.
C30_ScanTerminates ==
    /\ [][pc = "scan" /\ i < Len(data.v) =>
              pc' = "scan" /\ i' \in {i + 1, i + 2} /\ i' <= Len(data.v)]_vars
    /\ [][pc = "scan" /\ ~(i < Len(data.v)) => pc' = "extracted" /\ i' = i]_vars
    /\ (pc = "scan" ~> pc = "extracted")

\* a scan that took a step of 2 and then met a marker in the last position
\* has ended
C30_Witness ==
    /\ pc = "extracted" /\ Len(data.v) = 3 /\ i = 3
    /\ StrEq(data.v[1], <<"H", "u", "m", "a", "n", "M", "e", "s", "s", "a", "g", "e">>)
    /\ StrEq(data.v[3], <<"A", "I", "M", "e", "s", "s", "a", "g", "e">>)

\* the rows that reached the grouping with a conversation and a phone number
Eligible ==
    {k \in 1..Len(processed) :
        /\ processed[k].kind = "ok"
        /\ ~processed[k].skipped
        /\ processed[k].has_conversation
        /\ processed[k].phone_number # Null}

\* the rows of the same participant and chat date as row k
GroupOf(k) ==
    {j \in Eligible :
        /\ processed[j].phone_number = processed[k].phone_number
        /\ processed[j].chat_date = processed[k].chat_date}

RECURSIVE SumOfCounts(_)
SumOfCounts(S) ==
    IF S = {} THEN 0
    ELSE LET k == CHOOSE k \in S : TRUE
         IN  processed[k].message_count + SumOfCounts(S \ {k})

\* summary n is the one of the group of row k
SummaryOf(n, k) ==
    /\ chats[n].phone_number = processed[k].phone_number.v
    /\ chats[n].date = processed[k].chat_date

\* C25: of the rows that come to the grouping (the date filter, if any, has
\* let them through) those with a conversation and a phone number are grouped
\* by phone number and chat date; the list holds exactly one summary for
\* each group; the summary is of a row of the group whose serialized size is
\* maximal, its message_count is the sum of the message counts of the
\* group and its total_records the size of the group.
C25_GroupedByPhoneAndDate ==
    pc = "listed" =>
        /\ \A k \in Eligible :
              Cardinality({n \in 1..Len(chats) : SummaryOf(n, k)}) = 1
        /\ \A n \in 1..Len(chats) :
              \E k \in Eligible :
                  /\ SummaryOf(n, k)
                  /\ chats[n].id = processed[k].id
                  /\ \A j \in GroupOf(k) : processed[j].data_size <= processed[k].data_size
                  /\ chats[n].message_count = SumOfCounts(GroupOf(k))
                  /\ chats[n].total_records = Cardinality(GroupOf(k))

\* a list of two summaries of one participant, for two days; the first is
\* of a group of two rows, and the larger of them is the second row
C25_Witness ==
    /\ pc = "listed" /\ Len(chats) = 2
    /\ chats[1].phone_number = chats[2].phone_number
    /\ chats[1].date # chats[2].date
    /\ chats[1].total_records = 2 /\ chats[1].id = 2 /\ chats[1].message_count = 3

IsSorted(ts) == \A a, b \in 1..Len(ts) : a < b => ts[a] <= ts[b]

SameInstants(xs, ys) ==
    /\ Len(xs) = Len(ys)
    /\ \A x \in {xs[n] : n \in 1..Len(xs)} \cup {ys[n] : n \in 1..Len(ys)} :
          Cardinality({n \in 1..Len(xs) : xs[n] = x}) = Cardinality({n \in 1..Len(ys) : ys[n] = x})

\* the instants found in row k
RecoveredIn(k) ==
    search_for_timestamps(executions[k], [timestamps |-> <<>>, raised |-> "none"]).timestamps

\* C29: whenever extract_timestamps_from_data returns in list_chats_internal
\* (stated for the row that the loop has just gone through) its list is not
\* empty and is sorted ascending: it holds the recovered
\* instants if there are any and the 10 synthesized ones otherwise; so the
\* chat date is the date of the earliest returned instant, and the branch
\* that takes today for want of timestamps is not taken.
C29_ChatDateFromEarliest ==
    \A k \in {Len(processed)} \ {0} :
        pc = "idle" /\ processed[k].kind = "ok" =>
            /\ processed[k].timestamps # <<>>
            /\ IsSorted(processed[k].timestamps)
            /\ IF RecoveredIn(k) # <<>>
               THEN SameInstants(processed[k].timestamps, RecoveredIn(k))
               ELSE Len(processed[k].timestamps) = SyntheticCount
            /\ processed[k].chat_date = Day(processed[k].timestamps[1])

\* a row without instants, which got the synthesized ones, and a row whose
\* two instants stand in the log the later first
C29_Witness ==
    /\ \E k \in 1..Len(processed) :
          processed[k].kind = "ok" /\ RecoveredIn(k) = <<>>
    /\ \E k \in 1..Len(processed) :
          /\ processed[k].kind = "ok" /\ Len(RecoveredIn(k)) = 2
          /\ RecoveredIn(k)[1] > RecoveredIn(k)[2]

=============================================================================
